---- MODULE Spec2Model ----
\* Model of the serial-console pipeline of rtos-led-control-uart-menu:
\*   receive interrupt -> stream buffer -> UART task (line assembly)
\*   -> command queue -> command handler task (menu state machine)
\*   -> print queue -> print task.
\* Bytes are ASCII codes, C strings are sequences of bytes, C index i is
\* position i+1 of the sequence.
EXTENDS Integers, Sequences, FiniteSets, TLC

\* ---------------------------------------------------------------- constants
UART_RX_BUFFER_SIZE == 128
UART_STREAM_BUFFER_SIZE == 128
COMMAND_MAX_LENGTH == 32
COMMAND_QUEUE_DEPTH == 5
PRINT_QUEUE_DEPTH == 10
PRINT_MESSAGE_MAX_SIZE == 512
pdPASS == 1
pdFAIL == 0

NUL == 0
BS == 8
LF == 10
CR == 13
SP == 32
DEL == 127
Ch0 == 48
Ch1 == 49
Ch2 == 50
Ch3 == 51
Ch4 == 52
Ch9 == 57
ChX == 88

MENU_MAIN == "MENU_MAIN"
MENU_LED_PATTERNS == "MENU_LED_PATTERNS"
MenuState_t == {MENU_MAIN, MENU_LED_PATTERNS}

LED_PATTERN_NONE == "LED_PATTERN_NONE"
LED_PATTERN_1 == "LED_PATTERN_1"
LED_PATTERN_2 == "LED_PATTERN_2"
LED_PATTERN_3 == "LED_PATTERN_3"

\* ------------------------------------------------------------------- bounds
\* Scenario "keys": the user types at most MaxKeys arbitrary keys of Keys,
\* each after the output so far has been transmitted.
MaxKeys == 4
\* Scenario "hold": the user holds one key down for at most MaxRun bytes and
\* then presses Enter at most MaxHoldLines times.
MaxRun == 130
MaxHoldLines == 1
\* Scenario "burst": the user enters at most MaxBurst one-character lines,
\* alternately "1" and "0", each ended by LF; a byte arrives only while at
\* most MaxUnprinted print requests wait for the print task.
MaxBurst == 6
MaxUnprinted == 4
\* Scenario "edit": the user types at most MaxEdit keys of EditKeys, which
\* has the two backspace keys.
MaxEdit == 4
\* Scenario "type": the user types at most MaxType characters, alternately
\* "1" and "2", and no terminator.
MaxType == 9
\* Scenario "heal": the user holds a key down until the line buffer
\* overflows and then enters the line "1" at most MaxHealLines times, each
\* byte arriving only while at most MaxUnprinted print requests wait.
MaxHealLines == 1
\* Scenario "recover": the user runs into each kind of error and enters a
\* valid command after it.  A key is held until the line buffer overflows,
\* then come the lines "1", "9" (no option of the menu then shown) and "0",
\* then a burst of COMMAND_QUEUE_DEPTH + 1 lines, alternately "1" and "0",
\* and at last the line "1" at most MaxRecover times.  A byte arrives only
\* while the reception task waits for one, nothing waits to be transmitted
\* and the dispatcher is at its wait: with the lines before it processed,
\* or, inside the burst, whether or not it has a wake-up pending (the
\* burst goes on as long as the dispatcher has not woken up).
MaxRecover == 1
\* Scenario "residue": the user holds a key down past the overflow of the
\* line buffer, for at most MaxResidue bytes more, and then presses Enter
\* once; each byte arrives only while at most MaxUnprinted print requests
\* wait.
MaxResidue == 32
\* Scenario "flood": at most MaxFlood bytes arrive however many of them
\* wait, so that the stream buffer fills up; they are terminators and
\* backspaces, which the reception loop takes without buffering or printing.
MaxFlood == 130
\* Scenario "print": a task calls print_message at most MaxPrintCalls times
\* with the arguments PmArg(0), PmArg(1), ... while the print task runs.
MaxPrintCalls == 14
\* Scenario "quiet": the user types at most MaxQuiet keys, "1" and Enter in
\* turn, each once the tasks are back at their waits and the output
\* requested so far has been transmitted, and then stays silent; the waits
\* of the tasks run into their timeouts.
MaxQuiet == 2
\* Outside "flood" at most MaxPending received bytes wait in the stream
\* buffer; in the
\* scenarios "keys" and "burst" a byte arrives only once the reception task
\* has taken the one before it.
MaxPending == 1

Keys == {CR, SP, Ch0, Ch1, Ch2, Ch3, Ch4, Ch9}
HoldKeys == {ChX}
Terminators == {CR, LF}
BurstCmds == {Ch1, Ch0}
BurstLine(k) == IF k % 2 = 0 THEN Ch1 ELSE Ch0
EditKeys == {Ch1, Ch2, BS, DEL, CR, LF}
QuietByte(k) == IF k % 2 = 0 THEN Ch1 ELSE CR
TypeByte(k) == IF k % 2 = 0 THEN Ch1 ELSE Ch2
HealByte(k) == IF k < UART_RX_BUFFER_SIZE THEN ChX
               ELSE IF (k - UART_RX_BUFFER_SIZE) % 2 = 0 THEN Ch1 ELSE LF
RecoverSingles == <<Ch1, Ch9, Ch0>>
RecoverBurst == Len(RecoverSingles)
RecoverCmd(i) ==
    IF i < RecoverBurst THEN RecoverSingles[i + 1]
    ELSE IF i > RecoverBurst + COMMAND_QUEUE_DEPTH THEN Ch1
    ELSE BurstLine(i - RecoverBurst)
RecoverByte(k) ==
    IF k < UART_RX_BUFFER_SIZE THEN ChX
    ELSE IF (k - UART_RX_BUFFER_SIZE) % 2 = 0
         THEN RecoverCmd((k - UART_RX_BUFFER_SIZE) \div 2)
         ELSE LF
RecoverLines == RecoverBurst + COMMAND_QUEUE_DEPTH + 1 + MaxRecover
RecoverLen == UART_RX_BUFFER_SIZE + 2 * RecoverLines
\* Byte k belongs to the burst and is not its first byte.
InRecoverBurst(k) ==
    /\ k > UART_RX_BUFFER_SIZE + 2 * RecoverBurst
    /\ k < UART_RX_BUFFER_SIZE
           + 2 * (RecoverBurst + COMMAND_QUEUE_DEPTH + 1)
FloodByte(k) == CASE k % 4 = 0 -> LF
                  [] k % 4 = 1 -> BS
                  [] k % 4 = 2 -> CR
                  [] OTHER -> DEL
\* What lies on the dispatcher's stack behind received_command, where the
\* string functions read and write on when the record has no terminator.
\* The bytes themselves are whatever the build left there.  What
\* process_command does, what it leaves in the array and whether it stores
\* behind the array is, for any bytes there, what it is for one of these
\* two: a NUL right behind the array, where the string ends with the array
\* and trim_whitespace ends the command at the last byte of the array that
\* is not white space; and a byte that is not white space before the NUL,
\* where the command goes on behind the array.
StackTails == {<<NUL>>, <<ChX, NUL>>}

\* ------------------------------------------------------------ print messages
Text(id) == [id |-> id, c |-> NUL]
\* Variant: print_char leaves buffer[0] unset.
CharMsg_unset(c) == [id |-> "char", c |-> NUL]

CharMsg(c) == [id |-> "char", c |-> c]

\* The size of the buffer handed to xQueueSend for a message: the
\* char buffer[2] of print_char for a single character, the
\* char buffer[PRINT_MESSAGE_MAX_SIZE] of print_message for a text.
PRINT_CHAR_BUFFER_SIZE == 2
SourceSize(m) == IF m.id = "char" THEN PRINT_CHAR_BUFFER_SIZE
                 ELSE PRINT_MESSAGE_MAX_SIZE

WELCOME == Text("welcome")
MAIN_MENU == Text("main_menu")
LED_MENU == Text("led_patterns_menu")
MSG_INVALID == Text("Invalid option. Please try again.")
MSG_EXITED == Text("Application exited. All LEDs turned OFF.")
MSG_PATTERN1 == Text("Now playing LED Pattern 1")
MSG_PATTERN2 == Text("Now playing LED Pattern 2")
MSG_PATTERN3 == Text("Now playing LED Pattern 3")
MSG_ALL_OFF == Text("All LEDs turned OFF")
MSG_QUEUE_FULL == Text("Error: Command queue full!")
MSG_OVERFLOW == Text("Error: Buffer overflow!")
MSG_ERASE == Text("\\b \\b")
MSG_UNWATCHED == Text("[UART] Failed to register with watchdog!")

ErrorMsgs == {MSG_INVALID, MSG_QUEUE_FULL, MSG_OVERFLOW}
MenuMsgs == {MAIN_MENU, LED_MENU}
\* The values of MenuState_t, and values of its underlying type that are
\* none of them.
MenuStates == {MENU_MAIN, MENU_LED_PATTERNS}
OutOfRange == {"MENU_VALUE_2", "MENU_VALUE_255"}

MenuOf(st) == IF st = MENU_MAIN THEN MAIN_MENU ELSE LED_MENU

\* ---------------------------------------------------------------- variables
VARIABLES
    scenario,            \* environment: which input scenario this run follows
    boot_state,          \* environment: current_menu_state at start-up
    wd_ids,              \* environment: what watchdog_register returns to
                         \* the reception task and to the print task
    typed,               \* environment: bytes typed so far
    nlines,              \* environment: terminators typed so far
    uart_stream_buffer,  \* ISR -> task byte relay
    rx_buffer,           \* line assembly buffer, UART_RX_BUFFER_SIZE bytes
    rx_index,            \* cursor into rx_buffer
    received_char,       \* the byte the reception loop took last
    u_pc,                \* UART task position: "boot", "delay" (in
                         \* vTaskDelay), "loop" (at xStreamBufferReceive),
                         \* "send" (in xQueueSend on the command queue),
                         \* "notify" (before xTaskNotifyGive), or, inside
                         \* a print request, what that request is part of:
                         \* "banner", "unwatched", "erase", "echo",
                         \* "overflow", "full"
    u_todo,              \* the print requests the UART task has still to
                         \* issue before its code looks at anything else
    u_call,              \* the UART task inside a print request whose
                         \* xQueueSend on the print queue has stored the
                         \* message, or has given up: <<r>> with r the
                         \* result the call is about to return, and <<>>
                         \* outside such a call
    u_log,               \* what the reception loop did with the last byte
    command_queue,       \* queue of COMMAND_MAX_LENGTH-byte records
    notify,              \* notification value of the command handler task
    h_pc,                \* handler position: "take" | "drain"
    h_todo,              \* print requests the handler has still to issue
    received_command,    \* the handler's local record buffer
    h_log,               \* what the last process_command call did; rep
                         \* counts how often in a row it was the same call
    current_menu_state,
    print_queue,
    line_in,             \* bytes the reception loop took since the last data
                         \* byte that followed a terminator
    line_out,            \* echo and erase messages the print queue accepted
                         \* for line_in, as long as none was refused
    line_dropped,        \* an echo or erase message for line_in was refused
    cq_src,              \* for each record of command_queue, the number of
                         \* the terminator that completed its line
    u_iter,              \* parity of the iterations of the reception loop
    p_iter,              \* parity of the iterations of the print loop
    wd_uart,             \* parity of the watchdog_feed calls of the UART task
    wd_print,            \* parity of the watchdog_feed calls of the print task
    p_log,               \* what the last iteration of the print loop did
    rx_lost,             \* bytes the callback could not deposit
    out_first,           \* the first two messages the print queue accepted
    last_menu,           \* the last menu text the print queue accepted
    pm_log,              \* the last direct call of print_message: its
                         \* number, its argument and its return value
    menu_read,           \* what the last call of get_menu_state returned
    uart_rx_byte,        \* the one-byte buffer reception is armed into
    armed,               \* HAL_UART_Receive_IT is pending on uart_rx_byte
    isr_pc,              \* receive callback: 0 not running, else its step
    isr_log              \* observer: the interrupt the callback serves

vars == <<scenario, boot_state, wd_ids, typed, nlines, uart_stream_buffer,
          uart_rx_byte, armed, isr_pc, isr_log, rx_buffer, rx_index,
          received_char, u_pc, u_todo, u_call, u_log, command_queue, notify,
          h_pc, h_todo,
          received_command, h_log, current_menu_state, print_queue,
          line_in, line_out, line_dropped, cq_src, u_iter, p_iter, wd_uart,
          wd_print, p_log,
          rx_lost, out_first, last_menu, pm_log, menu_read>>

envVars == <<scenario, boot_state, wd_ids, typed, nlines>>
uartVars == <<rx_buffer, rx_index, received_char, u_pc, u_todo, u_call,
             u_log, u_iter>>
handlerVars == <<h_pc, h_todo, received_command, h_log, current_menu_state>>
echoVars == <<line_in, line_out, line_dropped>>
printVars == <<p_iter, wd_print, p_log>>
shownVars == <<out_first, last_menu>>
callVars == <<pm_log, menu_read>>
isrVars == <<uart_rx_byte, armed, isr_pc, isr_log>>

\* ------------------------------------------------------------ C string ops
Zeros(n) == [i \in 1..n |-> NUL]

\* Position of the first NUL of mem (mem contains one).
FirstNul(mem) == CHOOSE i \in 1..Len(mem) :
                     mem[i] = NUL /\ \A j \in 1..(i-1) : mem[j] # NUL

HasNul(mem) == \E i \in 1..Len(mem) : mem[i] = NUL

\* The C string stored at the start of mem.
CStr(mem) == SubSeq(mem, 1, FirstNul(mem) - 1)

\* The bytes of the string at the start of mem that lie in the first n
\* bytes of mem.
InArray(mem, n) == SubSeq(mem, 1, IF FirstNul(mem) > n THEN n
                                 ELSE FirstNul(mem) - 1)

isspace(c) == c = SP \/ (c >= 9 /\ c <= 13)

tolower(c) == IF c >= 65 /\ c <= 90 THEN c + 32 ELSE c

to_lowercase(mem) ==
    LET n == FirstNul(mem)
    IN [i \in 1..Len(mem) |-> IF i < n THEN tolower(mem[i]) ELSE mem[i]]

\* The position where trim_whitespace writes its NUL, after the last
\* non-space character; 0 when it returns without writing, the string
\* being empty or white space only.
TrimStore(mem) ==
    LET n == FirstNul(mem)
        s == CHOOSE i \in 1..n : ~isspace(mem[i])
                                  /\ \A j \in 1..(i-1) : isspace(mem[j])
    IN IF mem[s] = NUL THEN 0
       ELSE LET e == CHOOSE k \in s..(n-1) :
                         /\ (k = s \/ ~isspace(mem[k]))
                         /\ \A j \in (k+1)..(n-1) : isspace(mem[j])
            IN e + 1

\* trim_whitespace advances only its local copy of the pointer: the caller's
\* string keeps its first byte, and a NUL is written after the last
\* non-space character.
trim_whitespace(mem) ==
    IF TrimStore(mem) = 0 THEN mem ELSE [mem EXCEPT ![TrimStore(mem)] = NUL]

strcmp0(mem, lit) == CStr(mem) = lit


\* ------------------------------------------------------- menu state machine
\* Result of one call: the new state, the print requests in call order, the
\* collaborator calls in call order and the number of writes to the state.
Outcome(st, msgs, leds, writes) ==
    [state |-> st, msgs |-> msgs, leds |-> leds, writes |-> writes]

\* Variant: option "1" prints the submenu but forgets to change the state.
process_main_menu_command_no_transition(mem) ==
    IF strcmp0(mem, <<Ch1>>)
    THEN Outcome(MENU_MAIN, <<LED_MENU>>, <<>>, 0)
    ELSE IF strcmp0(mem, <<Ch2>>)
    THEN Outcome(MENU_MAIN, <<MSG_EXITED, MAIN_MENU>>, <<LED_PATTERN_NONE>>, 0)
    ELSE Outcome(MENU_MAIN, <<MSG_INVALID, MAIN_MENU>>, <<>>, 0)

\* Variant: option "2" confirms the exit without stopping the LED pattern.
process_main_menu_command_no_clear(mem) ==
    IF strcmp0(mem, <<Ch1>>)
    THEN Outcome(MENU_LED_PATTERNS, <<LED_MENU>>, <<>>, 1)
    ELSE IF strcmp0(mem, <<Ch2>>)
    THEN Outcome(MENU_MAIN, <<MSG_EXITED, MAIN_MENU>>, <<>>, 0)
    ELSE Outcome(MENU_MAIN, <<MSG_INVALID, MAIN_MENU>>, <<>>, 0)

process_main_menu_command(mem) ==
    IF strcmp0(mem, <<Ch1>>)
    THEN Outcome(MENU_LED_PATTERNS, <<LED_MENU>>, <<>>, 1)
    ELSE IF strcmp0(mem, <<Ch2>>)
    THEN Outcome(MENU_MAIN, <<MSG_EXITED, MAIN_MENU>>, <<LED_PATTERN_NONE>>, 0)
    ELSE Outcome(MENU_MAIN, <<MSG_INVALID, MAIN_MENU>>, <<>>, 0)

\* Variant: option "3" selects pattern 2 (a copy-and-paste slip).
process_led_patterns_menu_command_wrong_pattern(mem) ==
    IF strcmp0(mem, <<Ch0>>)
    THEN Outcome(MENU_MAIN, <<MAIN_MENU>>, <<>>, 1)
    ELSE IF strcmp0(mem, <<Ch1>>)
    THEN Outcome(MENU_LED_PATTERNS, <<MSG_PATTERN1, LED_MENU>>, <<LED_PATTERN_1>>, 0)
    ELSE IF strcmp0(mem, <<Ch2>>)
    THEN Outcome(MENU_LED_PATTERNS, <<MSG_PATTERN2, LED_MENU>>, <<LED_PATTERN_2>>, 0)
    ELSE IF strcmp0(mem, <<Ch3>>)
    THEN Outcome(MENU_LED_PATTERNS, <<MSG_PATTERN3, LED_MENU>>, <<LED_PATTERN_2>>, 0)
    ELSE IF strcmp0(mem, <<Ch4>>)
    THEN Outcome(MENU_LED_PATTERNS, <<MSG_ALL_OFF, LED_MENU>>, <<LED_PATTERN_NONE>>, 0)
    ELSE Outcome(MENU_LED_PATTERNS, <<MSG_INVALID, LED_MENU>>, <<>>, 0)

\* Variant: an invalid option in the submenu falls back to the main menu.
process_led_patterns_menu_command_invalid_resets(mem) ==
    IF strcmp0(mem, <<Ch0>>)
    THEN Outcome(MENU_MAIN, <<MAIN_MENU>>, <<>>, 1)
    ELSE IF strcmp0(mem, <<Ch1>>)
    THEN Outcome(MENU_LED_PATTERNS, <<MSG_PATTERN1, LED_MENU>>, <<LED_PATTERN_1>>, 0)
    ELSE IF strcmp0(mem, <<Ch2>>)
    THEN Outcome(MENU_LED_PATTERNS, <<MSG_PATTERN2, LED_MENU>>, <<LED_PATTERN_2>>, 0)
    ELSE IF strcmp0(mem, <<Ch3>>)
    THEN Outcome(MENU_LED_PATTERNS, <<MSG_PATTERN3, LED_MENU>>, <<LED_PATTERN_3>>, 0)
    ELSE IF strcmp0(mem, <<Ch4>>)
    THEN Outcome(MENU_LED_PATTERNS, <<MSG_ALL_OFF, LED_MENU>>, <<LED_PATTERN_NONE>>, 0)
    ELSE Outcome(MENU_MAIN, <<MSG_INVALID, MAIN_MENU>>, <<>>, 1)

process_led_patterns_menu_command(mem) ==
    IF strcmp0(mem, <<Ch0>>)
    THEN Outcome(MENU_MAIN, <<MAIN_MENU>>, <<>>, 1)
    ELSE IF strcmp0(mem, <<Ch1>>)
    THEN Outcome(MENU_LED_PATTERNS, <<MSG_PATTERN1, LED_MENU>>, <<LED_PATTERN_1>>, 0)
    ELSE IF strcmp0(mem, <<Ch2>>)
    THEN Outcome(MENU_LED_PATTERNS, <<MSG_PATTERN2, LED_MENU>>, <<LED_PATTERN_2>>, 0)
    ELSE IF strcmp0(mem, <<Ch3>>)
    THEN Outcome(MENU_LED_PATTERNS, <<MSG_PATTERN3, LED_MENU>>, <<LED_PATTERN_3>>, 0)
    ELSE IF strcmp0(mem, <<Ch4>>)
    THEN Outcome(MENU_LED_PATTERNS, <<MSG_ALL_OFF, LED_MENU>>, <<LED_PATTERN_NONE>>, 0)
    ELSE Outcome(MENU_LED_PATTERNS, <<MSG_INVALID, LED_MENU>>, <<>>, 0)

\* The command as process_command leaves it: trimmed, then lower-cased.
Normalize(mem) == to_lowercase(trim_whitespace(mem))

\* The positions of mem the two calls store to: the NUL of trim_whitespace,
\* if it writes one, and every byte of the trimmed string, which
\* to_lowercase stores back.
Stores(mem) ==
    (IF TrimStore(mem) = 0 THEN {} ELSE {TrimStore(mem)})
    \cup 1..(FirstNul(trim_whitespace(mem)) - 1)

\* Variant: the default branch requests the menu and leaves the state.
process_command_default_keeps(st, mem) ==
    LET cmd == Normalize(mem)
    IN CASE st = MENU_MAIN -> process_main_menu_command(cmd)
         [] st = MENU_LED_PATTERNS -> process_led_patterns_menu_command(cmd)
         [] OTHER -> Outcome(st, <<MAIN_MENU>>, <<>>, 0)

process_command(st, mem) ==
    LET cmd == Normalize(mem)
    IN CASE st = MENU_MAIN -> process_main_menu_command(cmd)
         [] st = MENU_LED_PATTERNS -> process_led_patterns_menu_command(cmd)
         [] OTHER -> Outcome(MENU_MAIN, <<MAIN_MENU>>, <<>>, 1)

\* ------------------------------------------------------------------ queues
\* xQueueSend with a bounded wait: pdPASS when a slot is free, errQUEUE_FULL
\* when the wait ends with the queue still full.
\* Variant: the occupancy test is off by one.
QueueSendPasses_off_by_one(q, depth) == Len(q) <= depth

QueueSendPasses(q, depth) == Len(q) < depth

\* xQueueSend that passes: the item goes to the back of the queue.
\* Variant: the item goes to the front (xQueueSendToFront).
QueueSend_to_front(q, item) == <<item>> \o q

QueueSend(q, item) == Append(q, item)

\* The print queue after print_message / print_char: the message is stored
\* when the send passes and dropped otherwise.
PrintSend(q, m) ==
    IF QueueSendPasses(q, PRINT_QUEUE_DEPTH) THEN Append(q, m) ELSE q

\* An argument of print_message: the null pointer or a C string.
NullArg == [null |-> TRUE, text |-> <<>>]
StrArg(n) == [null |-> FALSE, text |-> [i \in 1..n |-> 65 + (i % 26)]]

\* The arguments of the calls in the scenario "print": texts around the
\* size of a slot, and the null pointer.
PmLengths == <<513, 0, 511, 1, 512, 510>>
PmArg(k) == IF k % 7 = 6 THEN NullArg ELSE StrArg(PmLengths[(k % 7) + 1])

\* The local buffer of print_message after strncpy(buffer, message,
\* PRINT_MESSAGE_MAX_SIZE - 1) and buffer[PRINT_MESSAGE_MAX_SIZE - 1] = 0:
\* strncpy stops after the limit and pads a shorter string with NULs.
\* Variant: the limit of the copy is one character short.
PrintBuffer_one_short(text) ==
    [i \in 1..PRINT_MESSAGE_MAX_SIZE |->
        IF i <= Len(text) /\ i <= PRINT_MESSAGE_MAX_SIZE - 2
        THEN text[i] ELSE NUL]

PrintBuffer(text) ==
    [i \in 1..PRINT_MESSAGE_MAX_SIZE |->
        IF i <= Len(text) /\ i <= PRINT_MESSAGE_MAX_SIZE - 1
        THEN text[i] ELSE NUL]

\* The message a slot holds when print_message has copied buffer into it.
SlotMsg(buffer) == [id |-> "slot", c |-> buffer]

\* print_message(arg) on the print queue q: the queue afterwards and the
\* value returned.
print_message(q, arg) ==
    IF arg.null THEN [queue |-> q, ret |-> pdFAIL]
    ELSE IF QueueSendPasses(q, PRINT_QUEUE_DEPTH)
    THEN [queue |-> QueueSend(q, SlotMsg(PrintBuffer(arg.text))),
          ret |-> pdPASS]
    ELSE [queue |-> q, ret |-> pdFAIL]

PmLog(n, arg, ret) == [n |-> n, arg |-> arg, ret |-> ret]

\* xStreamBufferSendFromISR of one byte: the byte is stored if the stream
\* buffer has room and is not stored otherwise.
\* Variant: on a full buffer the oldest byte makes room for the new one.
StreamSend_overwrite_oldest(sb, b) ==
    IF Len(sb) < UART_STREAM_BUFFER_SIZE THEN Append(sb, b)
    ELSE Append(Tail(sb), b)

StreamSend(sb, b) ==
    IF Len(sb) < UART_STREAM_BUFFER_SIZE THEN Append(sb, b) ELSE sb

\* The item xQueueSend copies out of the line buffer: one slot's worth of
\* bytes starting at rx_buffer[0].
CommandRecord(buf) == SubSeq(buf, 1, COMMAND_MAX_LENGTH)

\* The room test of the reception loop (one byte is kept for the NUL).
\* Variant: no byte is kept back for the NUL.
LineHasRoom_no_reserve(idx) == idx < UART_RX_BUFFER_SIZE

LineHasRoom(idx) == idx < UART_RX_BUFFER_SIZE - 1

\* The bytes of the line assembled so far.
Line(buf, idx) == SubSeq(buf, 1, idx)

\* The test a terminator makes before the line is sent: if (rx_index > 0).
\* Variant: the line is sent whatever its length.
HasLine_unguarded(idx) == TRUE

HasLine(idx) == idx > 0

\* The test that guards the backspace: rx_index > 0.
\* Variant: the backspace is applied to an empty line as well.
CanErase_always(idx) == TRUE

CanErase(idx) == idx > 0

\* A backspace on a non-empty line: rx_index--; rx_buffer[rx_index] = '\0'.
\* Variant: the cursor is not moved back.
Backspace_no_decrement(buf, idx) ==
    [buf |-> [buf EXCEPT ![idx + 1] = NUL], idx |-> idx]

Backspace(buf, idx) == [buf |-> [buf EXCEPT ![idx] = NUL], idx |-> idx - 1]

\* The cursor after the line was sent, dropped or discarded: rx_index = 0.
\* Variant: the cursor is left where it was.
LineReset_keeps_cursor(idx) == idx

LineReset(idx) == 0

\* The statements of HAL_UART_RxCpltCallback for the console UART, in
\* program order.  Variant: reception is re-armed before the byte is
\* copied.
CallbackOrder_rearm_first == <<"rearm", "copy">>

CallbackOrder == <<"copy", "rearm">>

\* The record of the interrupt being served: the UART it came from, the
\* byte the hardware delivered, and whether the callback has copied it.
IsrLog(huart, rx, copied) == [huart |-> huart, rx |-> rx, copied |-> copied]

ULog(ev, len, line, msgs) ==
    [ev |-> ev, len |-> len, line |-> line, msgs |-> msgs]

\* The messages the reception loop uses to echo a byte or to erase one.
IsEcho(m) == m.id = "char" \/ m = MSG_ERASE

\* The terminators among the bytes of s.
TermsIn(s) == Cardinality({i \in 1..Len(s) : s[i] \in Terminators})

\* watchdog_feed(wd_id) on the record of the calling task: every call
\* changes the record, which is kept here as the parity of the calls.
WdFeed(w) == 1 - w

\* What watchdog_register returns: the identifier of the new record, or
\* WATCHDOG_INVALID_ID when it has none to give.
WATCHDOG_INVALID_ID == "WATCHDOG_INVALID_ID"
WatchdogIds == {"WATCHDOG_ID", WATCHDOG_INVALID_ID}

\* if (wd_id != WATCHDOG_INVALID_ID) watchdog_feed(wd_id), in both loops.
FeedIfRegistered(id, w) == IF id # WATCHDOG_INVALID_ID THEN WdFeed(w) ELSE w

PLog(ev, msg) == [ev |-> ev, msg |-> msg]

\* The record of what the print queue accepted, after a request for m.
OutFirst(first, m, passes) ==
    IF passes /\ Len(first) < 2 THEN Append(first, m) ELSE first

LastMenu(last, m, passes) ==
    IF passes /\ m \in MenuMsgs THEN m ELSE last

\* -------------------------------------------------------------- environment
Input ==
    CASE scenario = "keys" ->
            IF /\ typed < MaxKeys
               /\ uart_stream_buffer = <<>>
               /\ print_queue = <<>>
            THEN Keys
            ELSE {}
      [] scenario = "hold" ->
            (IF nlines = 0 /\ typed < MaxRun THEN HoldKeys ELSE {})
            \cup (IF nlines < MaxHoldLines THEN Terminators ELSE {})
      [] scenario = "burst" ->
            IF \/ nlines >= MaxBurst
               \/ uart_stream_buffer # <<>>
               \/ Len(print_queue) > MaxUnprinted
            THEN {}
            ELSE IF typed = 2 * nlines THEN {BurstLine(nlines)} ELSE {LF}
      [] scenario = "edit" -> IF typed < MaxEdit THEN EditKeys ELSE {}
      [] scenario = "type" -> IF typed < MaxType THEN {TypeByte(typed)} ELSE {}
      [] scenario = "heal" ->
            IF \/ typed >= UART_RX_BUFFER_SIZE + 2 * MaxHealLines
               \/ Len(print_queue) > MaxUnprinted
            THEN {}
            ELSE {HealByte(typed)}
      [] scenario = "recover" ->
            IF /\ typed < RecoverLen
               /\ uart_stream_buffer = <<>>
               /\ u_pc = "loop"
               /\ print_queue = <<>>
               /\ h_pc = "take"
               /\ \/ InRecoverBurst(typed)
                  \/ notify = 0 /\ command_queue = <<>>
            THEN {RecoverByte(typed)}
            ELSE {}
      [] scenario = "residue" ->
            IF nlines > 0 \/ Len(print_queue) > MaxUnprinted
            THEN {}
            ELSE (IF typed < UART_RX_BUFFER_SIZE + MaxResidue
                  THEN HoldKeys ELSE {})
                 \cup (IF typed > UART_RX_BUFFER_SIZE THEN {CR} ELSE {})
      [] scenario = "flood" ->
            IF typed < MaxFlood THEN {FloodByte(typed)} ELSE {}
      [] scenario = "print" -> {}
      [] scenario = "quiet" ->
            IF /\ typed < MaxQuiet
               /\ uart_stream_buffer = <<>>
               /\ print_queue = <<>>
               /\ u_pc = "loop"
               /\ h_pc = "take"
               /\ notify = 0
            THEN {QuietByte(typed)}
            ELSE {}

\* ------------------------------------------------------------------ actions
\* HAL_UART_RxCpltCallback: deposit the received byte if the stream buffer
\* has room, then re-arm reception: the callback runs again for the next
\* byte whether this one was stored or not.
RxCpltCallback(b) ==
    /\ b \in Input
    /\ scenario = "flood" \/ Len(uart_stream_buffer) < MaxPending
    /\ uart_rx_byte' = b
    /\ uart_stream_buffer' = StreamSend(uart_stream_buffer, b)
    /\ typed' = typed + 1
    /\ nlines' = IF b \in Terminators THEN nlines + 1 ELSE nlines
    /\ rx_lost' = IF Len(uart_stream_buffer) < UART_STREAM_BUFFER_SIZE
                  THEN rx_lost ELSE rx_lost + 1
    /\ UNCHANGED <<scenario, boot_state, wd_ids, uartVars, command_queue,
                   notify,
                   handlerVars, print_queue, echoVars, cq_src, wd_uart,
                   printVars, shownVars, callVars, armed, isr_pc, isr_log>>

\* The receive-complete interrupt in its steps.  The interrupt handler of
\* the HAL stores the received byte in the buffer reception was armed
\* with, ends the one-byte reception and calls HAL_UART_RxCpltCallback with
\* the handle of the console UART.
ByteReceived(b) ==
    /\ b \in Input
    /\ armed
    /\ Len(uart_stream_buffer) < MaxPending
    /\ uart_rx_byte' = b
    /\ armed' = FALSE
    /\ isr_pc' = IF isr_pc = 0 THEN 1 ELSE isr_pc
    /\ isr_log' = IF isr_pc = 0 THEN IsrLog("huart2", b, FALSE) ELSE isr_log
    /\ typed' = typed + 1
    /\ nlines' = IF b \in Terminators THEN nlines + 1 ELSE nlines
    /\ UNCHANGED <<scenario, boot_state, wd_ids, uart_stream_buffer, uartVars,
                   command_queue, notify, handlerVars, print_queue, echoVars,
                   cq_src, wd_uart, printVars, rx_lost, shownVars, callVars>>

\* The callback's xStreamBufferSendFromISR(uart_stream_buffer,
\* &uart_rx_byte, 1, ...).
IsrCopy ==
    /\ isr_pc \in 1..2
    /\ CallbackOrder[isr_pc] = "copy"
    /\ uart_stream_buffer' = StreamSend(uart_stream_buffer, uart_rx_byte)
    /\ rx_lost' = IF Len(uart_stream_buffer) < UART_STREAM_BUFFER_SIZE
                  THEN rx_lost ELSE rx_lost + 1
    /\ isr_log' = [isr_log EXCEPT !.copied = TRUE]
    /\ isr_pc' = (isr_pc + 1) % 3
    /\ UNCHANGED <<envVars, uart_rx_byte, armed, uartVars, command_queue,
                   notify, handlerVars, print_queue, echoVars, cq_src,
                   wd_uart, printVars, shownVars, callVars>>

\* The callback's HAL_UART_Receive_IT(&huart2, &uart_rx_byte, 1).
IsrRearm ==
    /\ isr_pc \in 1..2
    /\ CallbackOrder[isr_pc] = "rearm"
    /\ armed' = TRUE
    /\ isr_pc' = (isr_pc + 1) % 3
    /\ UNCHANGED <<envVars, uart_stream_buffer, uart_rx_byte, isr_log,
                   uartVars, command_queue, notify, handlerVars, print_queue,
                   echoVars, cq_src, wd_uart, printVars, rx_lost, shownVars,
                   callVars>>

\* HAL_UART_RxCpltCallback called with the handle of another UART: the
\* test huart == &huart2 fails and the callback returns.
OtherUartCallback ==
    /\ isr_pc = 0
    /\ isr_log' = IsrLog("other", NUL, FALSE)
    /\ UNCHANGED <<envVars, uart_stream_buffer, uart_rx_byte, armed, isr_pc,
                   uartVars, command_queue, notify, handlerVars, print_queue,
                   echoVars, cq_src, wd_uart, printVars, rx_lost, shownVars,
                   callVars>>

\* uart_task_handler, its entry: clear the line buffer and the cursor, then
\* sleep in vTaskDelay while the other tasks and the callback run.
UartStartup ==
    /\ u_pc = "boot"
    /\ rx_buffer' = Zeros(UART_RX_BUFFER_SIZE)
    /\ rx_index' = 0
    /\ u_pc' = "delay"
    /\ UNCHANGED <<u_call, u_iter, rx_lost, shownVars, callVars, isrVars>>
    /\ UNCHANGED <<envVars, uart_stream_buffer, received_char, u_todo, u_log,
                   command_queue, notify, handlerVars, print_queue, echoVars,
                   cq_src, wd_uart, printVars>>

\* The delay is over: the task goes on to print_welcome_message and
\* print_main_menu and stands in the first of the two print requests.  The
\* drain of the receive data register in between touches no modelled state.
UartDelayEnd ==
    /\ u_pc = "delay"
    /\ u_todo' = <<WELCOME, MAIN_MENU>>
    /\ u_pc' = "banner"
    /\ UNCHANGED <<u_call, u_iter, rx_lost, shownVars, callVars, isrVars>>
    /\ UNCHANGED <<envVars, uart_stream_buffer, rx_buffer, rx_index,
                   received_char, u_log, command_queue, notify, handlerVars,
                   print_queue, echoVars, cq_src, wd_uart, printVars>>

\* What the task does when a print request has returned, up to its next
\* blocking call; rest are the print requests still to issue before the
\* code looks at anything else.
\*   "banner"    the start-up texts are out: watchdog_register, and a
\*               message if it failed;
\*   "unwatched" that message is out: enter the loop;
\*   "erase"     the erase sequence is out: next iteration;
\*   "echo"      print_char is back: append the character if the line has
\*               room, else request the overflow message;
\*   "overflow", "full"  the error message is out: discard the line.
UartResume(rest) ==
    IF rest # <<>>
    THEN /\ u_todo' = rest
         /\ UNCHANGED <<rx_buffer, rx_index, u_pc, u_log>>
    ELSE CASE u_pc = "banner" ->
                 /\ IF wd_ids.uart = WATCHDOG_INVALID_ID
                    THEN u_todo' = <<MSG_UNWATCHED>> /\ u_pc' = "unwatched"
                    ELSE u_todo' = <<>> /\ u_pc' = "loop"
                 /\ UNCHANGED <<rx_buffer, rx_index, u_log>>
           [] u_pc \in {"unwatched", "erase"} ->
                 /\ u_todo' = <<>>
                 /\ u_pc' = "loop"
                 /\ UNCHANGED <<rx_buffer, rx_index, u_log>>
           [] u_pc = "echo" ->
                 IF LineHasRoom(rx_index)
                 THEN /\ rx_buffer' = [rx_buffer EXCEPT
                                         ![rx_index + 1] = received_char]
                      /\ rx_index' = rx_index + 1
                      /\ u_todo' = <<>>
                      /\ u_pc' = "loop"
                      /\ u_log' = ULog("append", rx_index, <<>>,
                                       <<CharMsg(received_char)>>)
                 ELSE /\ u_todo' = <<MSG_OVERFLOW>>
                      /\ u_pc' = "overflow"
                      /\ UNCHANGED <<rx_buffer, rx_index, u_log>>
           [] u_pc = "overflow" ->
                 /\ rx_index' = LineReset(rx_index)
                 /\ rx_buffer' = Zeros(UART_RX_BUFFER_SIZE)
                 /\ u_todo' = <<>>
                 /\ u_pc' = "loop"
                 /\ u_log' = ULog("overflow", rx_index, <<>>,
                                  <<CharMsg(received_char), MSG_OVERFLOW>>)
           [] u_pc = "full" ->
                 /\ rx_index' = LineReset(rx_index)
                 /\ rx_buffer' = Zeros(UART_RX_BUFFER_SIZE)
                 /\ u_todo' = <<>>
                 /\ u_pc' = "loop"
                 /\ UNCHANGED u_log

\* One print_message / print_char call of the UART task, up to the point
\* where its xQueueSend on the print queue has stored the message or, the
\* queue being full, has run into its timeout.  Storing the message makes
\* the print task ready, which may run before the call returns: the line
\* buffer and the cursor are as they were before the call.
\* Variant: the task hands the message to HAL_UART_Transmit itself.
UartPrint_direct ==
    /\ u_todo # <<>>
    /\ u_call = <<>>
    /\ p_log' = PLog("transmit", Head(u_todo))
    /\ u_todo' = Tail(u_todo)
    /\ u_call' = <<pdPASS>>
    /\ UNCHANGED <<u_iter, rx_lost, shownVars, callVars, isrVars>>
    /\ UNCHANGED <<envVars, uart_stream_buffer, rx_buffer, rx_index,
                   received_char, u_pc, u_log, command_queue, notify,
                   handlerVars, print_queue, echoVars, cq_src, wd_uart,
                   p_iter, wd_print>>

UartPrint ==
    /\ u_todo # <<>>
    /\ u_call = <<>>
    /\ print_queue' = PrintSend(print_queue, Head(u_todo))
    /\ u_todo' = Tail(u_todo)
    /\ u_call' = IF QueueSendPasses(print_queue, PRINT_QUEUE_DEPTH)
                 THEN <<pdPASS>> ELSE <<pdFAIL>>
    /\ LET m == Head(u_todo)
           refused == ~QueueSendPasses(print_queue, PRINT_QUEUE_DEPTH)
       IN IF IsEcho(m)
          THEN /\ line_dropped' = (line_dropped \/ refused)
               /\ line_out' = IF line_dropped \/ refused THEN <<>>
                               ELSE Append(line_out, m)
          ELSE UNCHANGED <<line_out, line_dropped>>
    /\ out_first' = OutFirst(out_first, Head(u_todo),
                             QueueSendPasses(print_queue, PRINT_QUEUE_DEPTH))
    /\ last_menu' = LastMenu(last_menu, Head(u_todo),
                             QueueSendPasses(print_queue, PRINT_QUEUE_DEPTH))
    /\ UNCHANGED <<u_iter, rx_lost, callVars, isrVars>>
    /\ UNCHANGED <<envVars, uart_stream_buffer, rx_buffer, rx_index,
                   received_char, u_pc, u_log, command_queue, notify,
                   handlerVars, line_in, cq_src, wd_uart, printVars>>

\* The print request returns and the task runs on to its next blocking
\* call: the next print request, or what UartResume says for the place
\* the request was issued from.
UartReturn ==
    /\ u_call # <<>>
    /\ u_call' = <<>>
    /\ UartResume(u_todo)
    /\ UNCHANGED <<u_iter, rx_lost, shownVars, callVars, isrVars>>
    /\ UNCHANGED <<envVars, uart_stream_buffer, received_char, command_queue,
                   notify, handlerVars, print_queue, echoVars, cq_src,
                   wd_uart, printVars>>

\* One iteration of the reception loop that received a byte, up to its
\* first blocking call: the watchdog is fed if the task is registered, and
\*   a terminator on a non-empty line terminates the line, the task then
\*   stands in the xQueueSend on the command queue;
\*   a backspace on a non-empty line removes the last character, the task
\*   then stands in the print request of the erase sequence;
\*   any other character is handed to print_char, the task stands in that
\*   print request and the line buffer is not yet touched.
UartReceive ==
    /\ u_pc = "loop"
    /\ uart_stream_buffer # <<>>
    /\ LET c == Head(uart_stream_buffer)
           fresh == /\ line_in # <<>>
                    /\ line_in[Len(line_in)] \in Terminators
                    /\ c \notin Terminators
       IN /\ uart_stream_buffer' = Tail(uart_stream_buffer)
          /\ received_char' = c
          /\ wd_uart' = FeedIfRegistered(wd_ids.uart, wd_uart)
          /\ line_in' = IF fresh THEN <<c>> ELSE Append(line_in, c)
          /\ line_out' = IF fresh THEN <<>> ELSE line_out
          /\ line_dropped' = IF fresh THEN FALSE ELSE line_dropped
          /\ IF c = LF \/ c = CR
             THEN IF HasLine(rx_index)
                  THEN /\ rx_buffer' = [rx_buffer EXCEPT ![rx_index + 1] = NUL]
                       /\ u_pc' = "send"
                       /\ u_log' = ULog("complete", rx_index,
                                        Line(rx_buffer, rx_index), <<>>)
                       /\ UNCHANGED <<rx_index, u_todo>>
                  ELSE /\ u_log' = ULog("empty_line", rx_index, <<>>, <<>>)
                       /\ UNCHANGED <<u_pc, u_todo, rx_index, rx_buffer>>
             ELSE IF c = BS \/ c = DEL
             THEN IF CanErase(rx_index)
                  THEN /\ rx_index' = Backspace(rx_buffer, rx_index).idx
                       /\ rx_buffer' = Backspace(rx_buffer, rx_index).buf
                       /\ u_todo' = <<MSG_ERASE>>
                       /\ u_pc' = "erase"
                       /\ u_log' = ULog("erase", rx_index, <<>>, <<MSG_ERASE>>)
                  ELSE /\ u_log' = ULog("nothing_to_erase", rx_index, <<>>, <<>>)
                       /\ UNCHANGED <<u_pc, u_todo, rx_index, rx_buffer>>
             ELSE /\ u_todo' = <<CharMsg(c)>>
                  /\ u_pc' = "echo"
                  /\ u_log' = ULog("echo", rx_index, <<>>, <<CharMsg(c)>>)
                  /\ UNCHANGED <<rx_index, rx_buffer>>
    /\ u_iter' = 1 - u_iter
    /\ UNCHANGED <<u_call, rx_lost, shownVars, callVars, isrVars>>
    /\ UNCHANGED <<envVars, command_queue, cq_src, notify, handlerVars,
                   print_queue, printVars>>

\* xQueueSend(command_queue, rx_buffer, 100 ms) returns: with the record
\* queued as soon as the queue has room, and the task then stands in front
\* of xTaskNotifyGive; or, the queue having stayed full, after the timeout,
\* and the task then stands in the print request of the queue-full message.
\* While the task waits here the dispatcher may take records.
UartSend ==
    /\ u_pc = "send"
    /\ IF QueueSendPasses(command_queue, COMMAND_QUEUE_DEPTH)
       THEN /\ command_queue' = QueueSend(command_queue,
                                          CommandRecord(rx_buffer))
            /\ cq_src' = QueueSend(cq_src,
                                   nlines - TermsIn(uart_stream_buffer))
            /\ u_pc' = "notify"
            /\ u_log' = ULog("enqueued", rx_index, Line(rx_buffer, rx_index),
                             <<>>)
            /\ UNCHANGED u_todo
       ELSE /\ u_todo' = <<MSG_QUEUE_FULL>>
            /\ u_pc' = "full"
            /\ u_log' = ULog("queue_full", rx_index,
                             Line(rx_buffer, rx_index), <<MSG_QUEUE_FULL>>)
            /\ UNCHANGED <<command_queue, cq_src>>
    /\ UNCHANGED <<u_call, u_iter, rx_lost, shownVars, callVars, isrVars>>
    /\ UNCHANGED <<envVars, uart_stream_buffer, rx_buffer, rx_index,
                   received_char, notify, handlerVars, print_queue, echoVars,
                   wd_uart, printVars>>

\* xTaskNotifyGive(command_handler_task_handle), the call that follows a
\* successful xQueueSend of a line, and the reset of the line buffer after
\* it.
\* Variant: the reception task goes on without giving the notification.
UartNotify_not_given ==
    /\ u_pc = "notify"
    /\ rx_index' = LineReset(rx_index)
    /\ rx_buffer' = Zeros(UART_RX_BUFFER_SIZE)
    /\ u_pc' = "loop"
    /\ UNCHANGED <<u_call, u_iter, rx_lost, shownVars, callVars, isrVars>>
    /\ UNCHANGED <<envVars, uart_stream_buffer, received_char, u_todo,
                   u_log, command_queue, notify, handlerVars, print_queue,
                   echoVars, cq_src, wd_uart, printVars>>

UartNotify ==
    /\ u_pc = "notify"
    /\ notify' = notify + 1
    /\ rx_index' = LineReset(rx_index)
    /\ rx_buffer' = Zeros(UART_RX_BUFFER_SIZE)
    /\ u_pc' = "loop"
    /\ UNCHANGED <<u_call, u_iter, rx_lost, shownVars, callVars, isrVars>>
    /\ UNCHANGED <<envVars, uart_stream_buffer, received_char, u_todo,
                   u_log, command_queue, handlerVars, print_queue, echoVars,
                   cq_src, wd_uart, printVars>>

\* One iteration of the reception loop whose xStreamBufferReceive ran into
\* its timeout: the watchdog is fed if the task is registered and the loop
\* continues.
\* Variant: the wait has no timeout.
UartTimeout_unbounded_wait == FALSE /\ UNCHANGED vars

\* Variant: the loop continues on a timeout before it feeds the watchdog.
UartTimeout_no_feed ==
    /\ u_pc = "loop"
    /\ uart_stream_buffer = <<>>
    /\ u_log' = ULog("timeout", rx_index, <<>>, <<>>)
    /\ u_iter' = 1 - u_iter
    /\ UNCHANGED <<u_call, rx_lost, shownVars, callVars, isrVars>>
    /\ UNCHANGED <<envVars, uart_stream_buffer, rx_buffer, rx_index,
                   received_char, u_pc, u_todo, command_queue, notify,
                   handlerVars, print_queue, echoVars, cq_src, wd_uart,
                   printVars>>

UartTimeout ==
    /\ u_pc = "loop"
    /\ uart_stream_buffer = <<>>
    /\ wd_uart' = FeedIfRegistered(wd_ids.uart, wd_uart)
    /\ u_log' = ULog("timeout", rx_index, <<>>, <<>>)
    /\ u_iter' = 1 - u_iter
    /\ UNCHANGED <<u_call, rx_lost, shownVars, callVars, isrVars>>
    /\ UNCHANGED <<envVars, uart_stream_buffer, rx_buffer, rx_index,
                   received_char, u_pc, u_todo, command_queue, notify,
                   handlerVars, print_queue, echoVars, cq_src, printVars>>

\* command_handler_task: ulTaskNotifyTake(pdTRUE, portMAX_DELAY) returns once
\* the notification value is non-zero and clears it.
HandlerTake ==
    /\ h_pc = "take"
    /\ notify > 0
    /\ notify' = 0
    /\ h_pc' = "drain"
    /\ UNCHANGED <<rx_lost, shownVars, callVars, isrVars>>
    /\ UNCHANGED <<envVars, uart_stream_buffer, uartVars, command_queue,
                   h_todo, received_command, h_log, current_menu_state,
                   print_queue, echoVars, cq_src, wd_uart, printVars>>

\* xQueueReceive(command_queue, received_command, 0) == pdPASS, followed by
\* process_command(received_command).  A record without a terminator makes
\* the string functions run on into the stack bytes behind the array, which
\* may be of either kind of StackTails.  The log keeps of the string read
\* (raw) and of the command compared (cmd) the bytes that lie in the array,
\* and tells whether the functions read (oob) and wrote (oobw) behind it.
HandlerReceive ==
    /\ h_pc = "drain"
    /\ h_todo = <<>>
    /\ command_queue # <<>>
    /\ \E tail \in StackTails :
          LET rec == Head(command_queue)
              mem == IF HasNul(rec) THEN rec ELSE rec \o tail
              out == process_command(current_menu_state, mem)
          IN /\ received_command'
                  = SubSeq(Normalize(mem), 1, COMMAND_MAX_LENGTH)
             /\ current_menu_state' = out.state
             /\ h_todo' = out.msgs
             /\ h_log' = [from |-> current_menu_state,
                          raw |-> InArray(mem, COMMAND_MAX_LENGTH),
                          cmd |-> InArray(Normalize(mem), COMMAND_MAX_LENGTH),
                          leds |-> out.leds,
                          writes |-> out.writes,
                          msgs |-> out.msgs,
                          oob |-> ~HasNul(rec),
                          oobw |-> \E i \in Stores(mem) :
                                      i > COMMAND_MAX_LENGTH,
                          src |-> Head(cq_src),
                          rep |-> IF /\ h_log.rep > 0
                                     /\ h_log.from = current_menu_state
                                     /\ h_log.cmd =
                                          InArray(Normalize(mem),
                                                  COMMAND_MAX_LENGTH)
                                  THEN h_log.rep + 1 ELSE 1]
    /\ command_queue' = Tail(command_queue)
    /\ cq_src' = Tail(cq_src)
    /\ UNCHANGED <<rx_lost, shownVars, callVars, isrVars>>
    /\ UNCHANGED <<envVars, uart_stream_buffer, uartVars, notify, h_pc,
                   print_queue, echoVars, wd_uart, printVars>>

\* xQueueReceive(command_queue, ..., 0) fails: back to the notification wait.
\* Variant: the handler goes back to the wait after any command (an if in
\* place of the inner while).
HandlerBlock_after_one ==
    /\ h_pc = "drain"
    /\ h_todo = <<>>
    /\ h_pc' = "take"
    /\ UNCHANGED <<rx_lost, shownVars, callVars, isrVars>>
    /\ UNCHANGED <<envVars, uart_stream_buffer, uartVars, command_queue,
                   notify, h_todo, received_command, h_log,
                   current_menu_state, print_queue, echoVars, cq_src,
                   wd_uart, printVars>>

HandlerBlock ==
    /\ h_pc = "drain"
    /\ h_todo = <<>>
    /\ command_queue = <<>>
    /\ h_pc' = "take"
    /\ UNCHANGED <<rx_lost, shownVars, callVars, isrVars>>
    /\ UNCHANGED <<envVars, uart_stream_buffer, uartVars, command_queue,
                   notify, h_todo, received_command, h_log,
                   current_menu_state, print_queue, echoVars, cq_src,
                   wd_uart, printVars>>

\* One pending print_message call of process_command.
HandlerPrint ==
    /\ h_todo # <<>>
    /\ print_queue' = PrintSend(print_queue, Head(h_todo))
    /\ h_todo' = Tail(h_todo)
    /\ out_first' = OutFirst(out_first, Head(h_todo),
                             QueueSendPasses(print_queue, PRINT_QUEUE_DEPTH))
    /\ last_menu' = LastMenu(last_menu, Head(h_todo),
                             QueueSendPasses(print_queue, PRINT_QUEUE_DEPTH))
    /\ UNCHANGED <<rx_lost, callVars, isrVars>>
    /\ UNCHANGED <<envVars, uart_stream_buffer, uartVars, command_queue,
                   notify, h_pc, received_command, h_log, current_menu_state,
                   echoVars, cq_src, wd_uart, printVars>>

\* print_task_handler: dequeue one message, hand it to HAL_UART_Transmit,
\* which returns when the message is sent, and feed the watchdog.
\* Variant: the message is read but left in the queue (xQueuePeek).
PrintTask_peek ==
    /\ print_queue # <<>>
    /\ p_log' = PLog("transmit", Head(print_queue))
    /\ wd_print' = FeedIfRegistered(wd_ids.print, wd_print)
    /\ p_iter' = 1 - p_iter
    /\ UNCHANGED <<rx_lost, shownVars, callVars, isrVars>>
    /\ UNCHANGED <<envVars, uart_stream_buffer, uartVars, command_queue,
                   notify, handlerVars, print_queue, echoVars, cq_src,
                   wd_uart>>

PrintTask ==
    /\ print_queue # <<>>
    /\ print_queue' = Tail(print_queue)
    /\ p_log' = PLog("transmit", Head(print_queue))
    /\ wd_print' = FeedIfRegistered(wd_ids.print, wd_print)
    /\ p_iter' = 1 - p_iter
    /\ UNCHANGED <<rx_lost, shownVars, callVars, isrVars>>
    /\ UNCHANGED <<envVars, uart_stream_buffer, uartVars, command_queue,
                   notify, handlerVars, echoVars, cq_src, wd_uart>>

\* One iteration of the print loop whose xQueueReceive ran into its
\* timeout: nothing is transmitted, the watchdog is fed.
PrintTimeout ==
    /\ print_queue = <<>>
    /\ p_log' = PLog("timeout", Text(""))
    /\ wd_print' = FeedIfRegistered(wd_ids.print, wd_print)
    /\ p_iter' = 1 - p_iter
    /\ UNCHANGED <<rx_lost, shownVars, callVars, isrVars>>
    /\ UNCHANGED <<envVars, uart_stream_buffer, uartVars, command_queue,
                   notify, handlerVars, print_queue, echoVars, cq_src,
                   wd_uart>>

\* A task calls print_message directly (the function may be called from any
\* task); the call returns after its bounded wait.
PrintMessageCall ==
    /\ scenario = "print"
    /\ pm_log.n < MaxPrintCalls
    /\ LET out == print_message(print_queue, PmArg(pm_log.n))
       IN /\ print_queue' = out.queue
          /\ pm_log' = PmLog(pm_log.n + 1, PmArg(pm_log.n), out.ret)
    /\ UNCHANGED <<envVars, uart_stream_buffer, uartVars, command_queue,
                   notify, handlerVars, echoVars, cq_src, wd_uart, printVars,
                   rx_lost, shownVars, menu_read, isrVars>>

\* get_menu_state(), called by a task that wants a snapshot of the menu
\* state: it returns current_menu_state.
\* Variant: the accessor also puts the menu back to its initial state.
GetMenuState_resets ==
    /\ menu_read' = current_menu_state
    /\ current_menu_state' = MENU_MAIN
    /\ UNCHANGED <<envVars, uart_stream_buffer, uartVars, command_queue,
                   notify, h_pc, h_todo, received_command, h_log,
                   print_queue, echoVars, cq_src, wd_uart, printVars,
                   rx_lost, shownVars, pm_log,
                   isrVars>>

GetMenuState ==
    /\ menu_read' = current_menu_state
    /\ UNCHANGED <<envVars, uart_stream_buffer, uartVars, command_queue,
                   notify, handlerVars, print_queue, echoVars, cq_src,
                   wd_uart, printVars, rx_lost, shownVars, pm_log,
                   isrVars>>

\* ------------------------------------------------------------ specification
Scenarios ==
    {"keys", "hold", "burst", "edit", "type", "heal", "recover", "residue",
     "flood",
     "print", "quiet"}

\* The state after construction, with the value st in current_menu_state.
InitMenu(st) ==
    /\ scenario \in Scenarios
    /\ boot_state = st
    /\ wd_ids \in [uart : WatchdogIds, print : WatchdogIds]
    /\ typed = 0
    /\ nlines = 0
    /\ uart_stream_buffer = <<>>
    /\ rx_buffer = Zeros(UART_RX_BUFFER_SIZE)
    /\ rx_index = 0
    /\ received_char = NUL
    /\ u_pc = "boot"
    /\ u_todo = <<>>
    /\ u_call = <<>>
    /\ u_log = ULog("none", 0, <<>>, <<>>)
    /\ command_queue = <<>>
    /\ notify = 0
    /\ h_pc = "take"
    /\ h_todo = <<>>
    /\ received_command = Zeros(COMMAND_MAX_LENGTH)
    /\ h_log = [from |-> MENU_MAIN, raw |-> <<>>, cmd |-> <<>>, leds |-> <<>>,
                writes |-> 0, msgs |-> <<>>, oob |-> FALSE,
                oobw |-> FALSE, src |-> 0,
                rep |-> 0]
    /\ current_menu_state = st
    /\ print_queue = <<>>
    /\ line_in = <<>>
    /\ line_out = <<>>
    /\ line_dropped = FALSE
    /\ cq_src = <<>>
    /\ wd_uart = 0
    /\ wd_print = 0
    /\ u_iter = 0
    /\ p_iter = 0
    /\ p_log = PLog("none", Text(""))
    /\ rx_lost = 0
    /\ out_first = <<>>
    /\ last_menu = Text("")
    /\ pm_log = PmLog(0, NullArg, pdFAIL)
    /\ menu_read = "none"
    /\ uart_rx_byte = NUL
    /\ armed = TRUE
    /\ isr_pc = 0
    /\ isr_log = IsrLog("none", NUL, FALSE)

\* static MenuState_t current_menu_state = MENU_MAIN.
Init == InitMenu(MENU_MAIN)

\* Both tasks got a watchdog record.
Registered == wd_ids = [uart |-> "WATCHDOG_ID", print |-> "WATCHDOG_ID"]

Next ==
    \/ \E b \in Keys \cup HoldKeys \cup BurstCmds \cup EditKeys :
          RxCpltCallback(b)
    \/ UartStartup
    \/ UartDelayEnd
    \/ UartPrint
    \/ UartReturn
    \/ UartReceive
    \/ UartSend
    \/ UartNotify
    \/ HandlerTake
    \/ HandlerReceive
    \/ HandlerBlock
    \/ HandlerPrint
    \/ PrintTask

Spec == Init /\ [][Next]_vars

\* The same system with the user following one input scenario.
InitKeys == Init /\ Registered /\ scenario = "keys"
InitHold == Init /\ Registered /\ scenario = "hold"
InitBurst == Init /\ Registered /\ scenario = "burst"

SpecKeys == InitKeys /\ [][Next]_vars
SpecHold == InitHold /\ [][Next]_vars
SpecBurst == InitBurst /\ [][Next]_vars

InitEdit == Init /\ Registered /\ scenario = "edit"
SpecEdit == InitEdit /\ [][Next]_vars

\* Echo and ordering are checked on edited lines and on characters typed
\* faster than they are printed.
InitEcho == Init /\ Registered /\ scenario \in {"edit", "type"}
SpecEcho == InitEcho /\ [][Next]_vars

\* A step of one of the three tasks (no timeout of a wait).
TaskStep ==
    \/ UartStartup \/ UartDelayEnd \/ UartPrint \/ UartReturn
    \/ UartReceive \/ UartSend \/ UartNotify
    \/ HandlerTake \/ HandlerReceive \/ HandlerBlock \/ HandlerPrint
    \/ PrintTask

\* The processor does not stay idle while a task is ready to run: the
\* scheduler runs one of the ready tasks, whichever it is.
TaskFairness == WF_vars(TaskStep)

\* Recovery from errors is checked on a run that has a line-buffer
\* overflow, an invalid command and a burst of lines that fills the
\* command queue, each followed by a valid command.
InitHeal == Init /\ Registered /\ scenario = "recover"
SpecHeal == InitHeal /\ [][Next]_vars /\ TaskFairness

\* Task priorities.  The print task is created with PRINT_TASK_PRIORITY,
\* the dispatcher with 2; the reception task is created outside these
\* sources, with the priority 2 that the specification and the header
\* comments give.
PRINT_TASK_PRIORITY == 3
HANDLER_TASK_PRIORITY == 2
UART_TASK_PRIORITY == 2

Tasks == {"print", "uart", "handler"}

\* Variant: the print task below the other two, as the comments of
\* print_task.c have it.
Priority_print_lowest(t) ==
    CASE t = "print" -> HANDLER_TASK_PRIORITY - 1
      [] t = "uart" -> UART_TASK_PRIORITY
      [] t = "handler" -> HANDLER_TASK_PRIORITY

Priority(t) == CASE t = "print" -> PRINT_TASK_PRIORITY
                 [] t = "uart" -> UART_TASK_PRIORITY
                 [] t = "handler" -> HANDLER_TASK_PRIORITY

\* A task is ready when it is not blocked in xQueueReceive on an empty
\* print queue, in xStreamBufferReceive on an empty relay or in
\* ulTaskNotifyTake with no notification pending.  The waits with a short
\* timeout (vTaskDelay, xQueueSend) end by themselves.
Ready(t) ==
    CASE t = "print" -> print_queue # <<>>
      [] t = "uart" -> \/ u_pc # "loop"
                       \/ uart_stream_buffer # <<>>
      [] t = "handler" -> \/ h_pc = "drain"
                          \/ h_todo # <<>>
                          \/ notify > 0

\* The preemptive scheduler runs a ready task of the highest priority
\* among the ready tasks; tasks of equal priority share the processor.
Runs(t) ==
    /\ Ready(t)
    /\ \A o \in Tasks : Ready(o) => Priority(o) <= Priority(t)

\* The system under priority-preemptive scheduling: the receive interrupt
\* comes at any time, a task steps only when the scheduler runs it.
NextPrio ==
    \/ \E b \in Keys \cup HoldKeys \cup BurstCmds \cup EditKeys :
          RxCpltCallback(b)
    \/ /\ Runs("uart")
       /\ \/ UartStartup
          \/ UartDelayEnd
          \/ UartPrint
          \/ UartReturn
          \/ UartReceive
          \/ UartSend
          \/ UartNotify
    \/ /\ Runs("handler")
       /\ \/ HandlerTake
          \/ HandlerReceive
          \/ HandlerBlock
          \/ HandlerPrint
    \/ /\ Runs("print")
       /\ PrintTask

InitPrio == Init /\ Registered /\ scenario \in {"keys", "burst"}
SpecPrio == InitPrio /\ [][NextPrio]_vars

\* Echo under priority-preemptive scheduling, on edited lines and on
\* characters typed as fast as the reception task takes them.
SpecEchoPrio == InitEcho /\ [][NextPrio]_vars

\* The line buffer and its cursor are checked on edited lines, on bursts
\* of lines and on a line-buffer overflow.
InitCursor == Init /\ Registered /\ scenario \in {"edit", "burst", "heal"}
SpecCursor == InitCursor /\ [][Next]_vars

\* What is left of a line after an overflow is checked on a key held past
\* the overflow.
InitResidue == Init /\ Registered /\ scenario = "residue"
SpecResidue == InitResidue /\ [][Next]_vars

\* The default branch of process_command is checked on edited lines, with
\* the menu state starting from each of its values and from values that
\* are none of them.
InitDefensive ==
    /\ \E st \in MenuStates \cup OutOfRange : InitMenu(st)
    /\ Registered
    /\ scenario = "edit"
SpecDefensive == InitDefensive /\ [][Next]_vars

\* The receive interrupt in its steps: no task runs while the callback
\* does, a byte is received whenever reception is armed.
NextIsr ==
    \/ \E b \in EditKeys : ByteReceived(b)
    \/ IsrCopy
    \/ IsrRearm
    \/ OtherUartCallback
    \/ /\ isr_pc = 0
       /\ \/ UartStartup
          \/ UartDelayEnd
          \/ UartPrint
          \/ UartReturn
          \/ UartReceive
          \/ UartSend
          \/ UartNotify
          \/ HandlerTake
          \/ HandlerReceive
          \/ HandlerBlock
          \/ HandlerPrint
          \/ PrintTask

InitIsr == Init /\ Registered /\ scenario = "edit"
SpecIsr == InitIsr /\ [][NextIsr]_vars

\* The byte relay is checked on edited lines and on a flood of bytes.
InitRelay == Init /\ Registered /\ scenario \in {"edit", "flood"}
SpecRelay == InitRelay /\ [][Next]_vars

\* The system with a task that reads the menu state through the accessor
\* at any moment.
NextDiag ==
    \/ Next
    \/ GetMenuState

SpecDiag == InitEdit /\ [][NextDiag]_vars

\* print_message under direct calls, with the print task emptying the queue.
NextPrint ==
    \/ PrintMessageCall
    \/ PrintTask

InitPrint == Init /\ Registered /\ scenario = "print"
SpecPrint == InitPrint /\ [][NextPrint]_vars

\* The system with pauses in the input: the bounded waits of the reception
\* loop and of the print loop may run into their timeouts.
NextQuiet ==
    \/ Next
    \/ UartTimeout
    \/ PrintTimeout

\* Every task that is ready to run is eventually run: the print task has
\* the highest priority and blocks whenever its queue is empty, the other
\* tasks block on their own waits.
Fairness ==
    /\ WF_vars(UartStartup \/ UartDelayEnd \/ UartPrint \/ UartReturn
                  \/ UartReceive
                  \/ UartSend \/ UartNotify \/ UartTimeout)
    /\ WF_vars(HandlerTake \/ HandlerReceive \/ HandlerBlock \/ HandlerPrint)
    /\ WF_vars(PrintTask \/ PrintTimeout)

InitQuiet == Init /\ scenario = "quiet"
SpecQuiet == InitQuiet /\ [][NextQuiet]_vars /\ Fairness

\* ------------------------------------------------------------------ claims
\* The option strings each menu state accepts.
Options(st) == IF st = MENU_MAIN THEN {<<Ch1>>, <<Ch2>>}
               ELSE {<<Ch0>>, <<Ch1>>, <<Ch2>>, <<Ch3>>, <<Ch4>>}

\* s without its leading and trailing whitespace.
Strip(s) ==
    IF \A i \in 1..Len(s) : isspace(s[i]) THEN <<>>
    ELSE LET a == CHOOSE i \in 1..Len(s) :
                      ~isspace(s[i]) /\ \A j \in 1..(i-1) : isspace(s[j])
             b == CHOOSE i \in 1..Len(s) :
                      ~isspace(s[i]) /\ \A j \in (i+1)..Len(s) : isspace(s[j])
         IN SubSeq(s, a, b)

Dispatched == h_log.rep > 0

\* C1: a line made of a valid option surrounded by whitespace is dispatched
\* exactly as the bare option: same new state, same print requests, same
\* collaborator calls.
C1_PaddedOptionDispatchedAsBare ==
    (Dispatched /\ Strip(h_log.raw) \in Options(h_log.from)) =>
        LET bare == process_command(h_log.from, Strip(h_log.raw) \o <<NUL>>)
        IN /\ current_menu_state = bare.state
           /\ h_log.msgs = bare.msgs
           /\ h_log.leds = bare.leds

\* C2: "1" in Main moves to LedPatterns with one write of the state, no
\* collaborator call and a request for the submenu.
C2_MainOneEntersLedPatterns ==
    (Dispatched /\ h_log.from = MENU_MAIN /\ h_log.cmd = <<Ch1>>) =>
        /\ current_menu_state = MENU_LED_PATTERNS
        /\ h_log.writes = 1
        /\ h_log.leds = <<>>
        /\ h_log.msgs = <<LED_MENU>>

C2_Witness ==
    /\ Dispatched /\ h_log.from = MENU_MAIN /\ h_log.cmd = <<Ch1>>
    /\ current_menu_state = MENU_LED_PATTERNS

\* C3: every "2" in Main, however often repeated, calls the collaborator once
\* with pattern None, requests the same confirmation then the Main menu, and
\* leaves the state Main.
C3_MainTwoIdempotent ==
    (Dispatched /\ h_log.from = MENU_MAIN /\ h_log.cmd = <<Ch2>>) =>
        /\ current_menu_state = MENU_MAIN
        /\ h_log.writes = 0
        /\ h_log.leds = <<LED_PATTERN_NONE>>
        /\ h_log.msgs = <<MSG_EXITED, MAIN_MENU>>

C3_Witness ==
    /\ h_log.from = MENU_MAIN /\ h_log.cmd = <<Ch2>> /\ h_log.rep >= 2
    /\ current_menu_state = MENU_MAIN

\* C4: in LedPatterns "0" returns to Main and requests the Main menu; "1".."4"
\* call the collaborator once with Pattern1, Pattern2, Pattern3, None, request
\* a confirmation then the submenu, and stay in LedPatterns.
PatternOf(cmd) ==
    CASE cmd = <<Ch1>> -> LED_PATTERN_1
      [] cmd = <<Ch2>> -> LED_PATTERN_2
      [] cmd = <<Ch3>> -> LED_PATTERN_3
      [] cmd = <<Ch4>> -> LED_PATTERN_NONE

Confirmations == {MSG_PATTERN1, MSG_PATTERN2, MSG_PATTERN3, MSG_ALL_OFF}

C4_LedPatternsOptions ==
    (Dispatched /\ h_log.from = MENU_LED_PATTERNS) =>
        /\ h_log.cmd = <<Ch0>> =>
              /\ current_menu_state = MENU_MAIN
              /\ h_log.msgs = <<MAIN_MENU>>
        /\ h_log.cmd \in {<<Ch1>>, <<Ch2>>, <<Ch3>>, <<Ch4>>} =>
              /\ current_menu_state = MENU_LED_PATTERNS
              /\ h_log.leds = <<PatternOf(h_log.cmd)>>
              /\ Len(h_log.msgs) = 2
              /\ h_log.msgs[1] \in Confirmations
              /\ h_log.msgs[2] = LED_MENU

C4_Witness ==
    /\ Dispatched /\ h_log.from = MENU_LED_PATTERNS /\ h_log.cmd = <<Ch3>>
    /\ h_log.leds = <<LED_PATTERN_3>>

\* C5: a command that is not an option of the current menu leaves the state
\* unchanged, calls no collaborator and requests the invalid-option message
\* followed by the menu of the current state.
C5_InvalidKeepsState ==
    (Dispatched /\ h_log.cmd \notin Options(h_log.from)) =>
        /\ current_menu_state = h_log.from
        /\ h_log.writes = 0
        /\ h_log.leds = <<>>
        /\ h_log.msgs = <<MSG_INVALID, MenuOf(h_log.from)>>

C5_Witness ==
    /\ Dispatched /\ h_log.from = MENU_LED_PATTERNS /\ h_log.cmd = <<Ch9>>
    /\ current_menu_state = MENU_LED_PATTERNS
    /\ h_log.msgs = <<MSG_INVALID, LED_MENU>>

\* C6: every error message a task requests is followed, as that task's next
\* request, by the menu of the current menu state.
FollowedByMenu(msgs) ==
    \A i \in 1..Len(msgs) :
        msgs[i] \in ErrorMsgs =>
            i < Len(msgs) /\ msgs[i + 1] = MenuOf(current_menu_state)

C6_ErrorFollowedByMenu == FollowedByMenu(u_log.msgs) /\ FollowedByMenu(h_log.msgs)

\* C7: a line of UART_RX_BUFFER_SIZE - 1 bytes is enqueued intact: the record
\* placed on the command queue holds the typed line byte for byte.
C7_MaxLengthLineIntact ==
    (/\ u_log.ev = "enqueued"
     /\ u_log.len = UART_RX_BUFFER_SIZE - 1
     /\ command_queue # <<>>) =>
        LET rec == command_queue[Len(command_queue)]
        IN HasNul(rec) /\ CStr(rec) = u_log.line

\* C8: no line of more than COMMAND_MAX_LENGTH bytes is placed on the command
\* queue.
C8_LongLineNeverEnqueued ==
    u_log.ev = "enqueued" => u_log.len <= COMMAND_MAX_LENGTH

\* C9: a data byte arriving with UART_RX_BUFFER_SIZE - 1 bytes buffered is not
\* appended: the overflow message is requested, the buffer is cleared and the
\* cursor is 0; a held line of UART_RX_BUFFER_SIZE bytes followed by a
\* terminator enqueues nothing and never wakes the handler.
C9_LineBufferOverflow ==
    /\ u_log.ev = "overflow" =>
          /\ u_log.len = UART_RX_BUFFER_SIZE - 1
          /\ Len(u_log.msgs) = 2
          /\ u_log.msgs[2] = MSG_OVERFLOW
          /\ rx_index = 0
          /\ rx_buffer = Zeros(UART_RX_BUFFER_SIZE)
    /\ u_log.ev = "append" =>
          /\ u_log.len < UART_RX_BUFFER_SIZE - 1
          /\ rx_index = u_log.len + 1
    /\ (scenario = "hold" /\ nlines >= 1 /\ typed - nlines = UART_RX_BUFFER_SIZE) =>
          /\ command_queue = <<>>
          /\ notify = 0
          /\ h_pc = "take"
          /\ ~Dispatched

C9_Witness ==
    /\ scenario = "hold" /\ nlines = 1 /\ typed = UART_RX_BUFFER_SIZE + 1
    /\ uart_stream_buffer = <<>>
    /\ u_log.ev = "empty_line"
    /\ command_queue = <<>> /\ notify = 0

\* C10: when the bounded wait of the xQueueSend of a completed line ends
\* with every slot of the command queue still taken, the reception task
\* leaves the queue and the notification value as they are and requests the
\* queue-full message; once that request has returned it clears the line
\* buffer and is back at its wait on the relay, the handler still not
\* notified; the queue never holds more than COMMAND_QUEUE_DEPTH records,
\* and the task leaves the xQueueSend whether the queue has room or not.
UartTakesByte ==
    /\ uart_stream_buffer # <<>>
    /\ Len(uart_stream_buffer') < Len(uart_stream_buffer)

\* The reception task is in the xQueueSend of a completed line / in the
\* print request of the queue-full message, and the call returns.
UartSendReturns == u_pc = "send" /\ u_pc' # "send"
UartFullReturns == u_pc = "full" /\ u_pc' # "full"

C10_Backpressure ==
    /\ [][Len(command_queue') <= COMMAND_QUEUE_DEPTH]_vars
    /\ [](u_pc = "send" => ENABLED UartSend)
    /\ [][(UartSendReturns /\ Len(command_queue) = COMMAND_QUEUE_DEPTH) =>
             /\ command_queue' = command_queue
             /\ notify' = notify
             /\ u_todo' = <<MSG_QUEUE_FULL>>
             /\ u_pc' = "full"
             /\ UNCHANGED <<rx_index, rx_buffer>>]_vars
    /\ [][UartFullReturns =>
             /\ command_queue' = command_queue
             /\ notify' = notify
             /\ u_todo' = <<>>
             /\ rx_index' = 0
             /\ rx_buffer' = Zeros(UART_RX_BUFFER_SIZE)
             /\ u_pc' = "loop"]_vars
    /\ [][(u_pc' = "send" /\ u_pc # "send") =>
             /\ UartTakesByte
             /\ Head(uart_stream_buffer) \in Terminators
             /\ rx_index > 0]_vars

C10_Witness ==
    /\ u_log.ev = "queue_full"
    /\ Len(command_queue) = COMMAND_QUEUE_DEPTH
    /\ rx_index = 0
    /\ u_pc = "loop"
    /\ line_in = <<Ch0, LF>>
    /\ notify = 0

\* A print request of the UART task / of the handler that finds the print
\* queue full.
UartRefused ==
    /\ u_todo # <<>>
    /\ u_todo' = Tail(u_todo)
    /\ ~QueueSendPasses(print_queue, PRINT_QUEUE_DEPTH)

HandlerRefused ==
    /\ h_todo # <<>>
    /\ h_todo' = Tail(h_todo)
    /\ ~QueueSendPasses(print_queue, PRINT_QUEUE_DEPTH)

\* C11: whenever a print request fails because the print queue is full,
\* the message is dropped, the task goes on, and the next thing the task
\* requests (the reception task once the failed call has returned) is an
\* error message that reports the failure.
C11_OutputFullReported ==
    [][/\ UartRefused =>
            /\ print_queue' = print_queue
            /\ u_call' = <<pdFAIL>>
       /\ (u_call = <<pdFAIL>> /\ u_call' = <<>>) =>
            /\ u_pc' \notin {"boot", "delay"}
            /\ u_todo' # <<>> /\ Head(u_todo') \in ErrorMsgs
       /\ HandlerRefused =>
            /\ print_queue' = print_queue
            /\ h_pc' = h_pc
            /\ h_todo' # <<>> /\ Head(h_todo') \in ErrorMsgs]_vars

\* What the claim expects on the Output Channel for the bytes s[i..] taken
\* by the reception task when the line is len bytes long: the byte itself
\* for a data byte, the erase sequence for a backspace that has a character
\* to delete, nothing for a terminator or for a backspace on an empty line.
RECURSIVE EchoFrom(_, _, _)
EchoFrom(s, i, len) ==
    IF i > Len(s) THEN <<>>
    ELSE IF s[i] \in Terminators THEN EchoFrom(s, i + 1, 0)
    ELSE IF s[i] \in {BS, DEL}
         THEN IF len > 0 THEN <<MSG_ERASE>> \o EchoFrom(s, i + 1, len - 1)
              ELSE EchoFrom(s, i + 1, 0)
    ELSE <<[id |-> "char", c |-> s[i]]>>
         \o EchoFrom(s, i + 1,
                     IF len < UART_RX_BUFFER_SIZE - 1 THEN len + 1 ELSE 0)

\* The reception loop has issued every print request of the bytes it took.
EchoSettled == u_pc = "loop" /\ u_todo = <<>>

\* C12: echo fidelity.  Under priority-preemptive scheduling, whenever the
\* reception loop has issued the print requests of the bytes it took, no
\* request was refused and the echo messages on the Output Channel for the
\* bytes taken since the line began are those bytes, one message per data
\* byte in the same order, the erase sequence for each effective backspace
\* and nothing for a terminator; the requests of each byte taken are
\* exactly these, and each accepted request adds its message at the end of
\* the Output Channel.
C12_EchoFidelity ==
    /\ [](EchoSettled => ~line_dropped /\ line_out = EchoFrom(line_in, 1, 0))
    /\ [](Len(print_queue) <= 1)
    /\ [][UartTakesByte =>
            SelectSeq(u_todo', IsEcho)
              = EchoFrom(<<Head(uart_stream_buffer)>>, 1, rx_index)]_vars
    /\ [][(u_todo # <<>> /\ u_todo' = Tail(u_todo) /\ IsEcho(Head(u_todo)))
            => /\ print_queue' = Append(print_queue, Head(u_todo))
               /\ line_out' = Append(line_out, Head(u_todo))]_vars

\* The line "21", a backspace and Enter: both characters were echoed, then
\* the erase sequence, and nothing for the terminator.
C12_Witness ==
    /\ EchoSettled
    /\ ~line_dropped
    /\ line_in = <<Ch2, Ch1, BS, CR>>
    /\ line_out = <<CharMsg(Ch2), CharMsg(Ch1), MSG_ERASE>>

\* What the claim expects of the typed bytes s[i..] of one line: a
\* backspace deletes the most recent surviving character, any other byte is
\* added at the end.
RECURSIVE Edited(_, _, _)
Edited(s, i, acc) ==
    IF i > Len(s) THEN acc
    ELSE IF s[i] \in {BS, DEL}
         THEN Edited(s, i + 1,
                     IF acc = <<>> THEN acc ELSE SubSeq(acc, 1, Len(acc) - 1))
    ELSE Edited(s, i + 1, Append(acc, s[i]))

UartTakes(bytes) == UartTakesByte /\ Head(uart_stream_buffer) \in bytes

\* The bytes of line_in before the terminator taken last.
TypedLine == SubSeq(line_in, 1, Len(line_in) - 1)

\* C13: a backspace (0x08 or 0x7F) on a non-empty line removes exactly the
\* last buffered character and requests the erase sequence; on an empty line
\* it changes nothing and requests nothing; the line handed to the command
\* queue at the terminator is the typed bytes with every backspace applied,
\* and so is the record stored for it when the line fits a record.
C13_BackspaceEditing ==
    /\ [][UartTakes({BS, DEL}) /\ rx_index > 0 =>
            /\ rx_index' = rx_index - 1
            /\ Line(rx_buffer', rx_index') = Line(rx_buffer, rx_index - 1)
            /\ rx_buffer'[rx_index] = NUL
            /\ u_todo' = <<MSG_ERASE>>
            /\ UNCHANGED <<command_queue, notify, print_queue>>]_vars
    /\ [][UartTakes({BS, DEL}) /\ rx_index = 0 =>
            UNCHANGED <<rx_index, rx_buffer, u_todo, command_queue, notify,
                        print_queue>>]_vars
    /\ [][UartSendReturns /\ Len(command_queue') > Len(command_queue) =>
            /\ Line(rx_buffer, rx_index) = Edited(TypedLine, 1, <<>>)
            /\ rx_index < COMMAND_MAX_LENGTH =>
                  CStr(command_queue'[Len(command_queue')])
                    = Edited(TypedLine, 1, <<>>)]_vars

C13_Witness ==
    /\ u_log.ev = "enqueued"
    /\ line_in = <<Ch1, Ch2, DEL, CR>>
    /\ command_queue # <<>>
    /\ CStr(command_queue[Len(command_queue)]) = <<Ch1>>

\* C14: a CR or LF taken with a non-empty line terminates the line and
\* brings the task into one xQueueSend of that line, the only way into it
\* and the only place a record comes from; when the send succeeds the
\* record is the line and the dispatcher gets one notification as the next
\* step of the task, the only place a notification comes from; when it
\* fails nothing is queued and nothing notified.  A CR or LF taken with an
\* empty line changes nothing; so the LF of a CR LF pair adds no second
\* command.
C14_LineCompletion ==
    /\ [][UartTakes(Terminators) /\ rx_index > 0 =>
            /\ u_pc' = "send"
            /\ rx_buffer' = [rx_buffer EXCEPT ![rx_index + 1] = NUL]
            /\ UNCHANGED <<command_queue, notify, u_todo, print_queue,
                           rx_index>>]_vars
    /\ [][(u_pc' = "send" /\ u_pc # "send") =>
            UartTakes(Terminators) /\ rx_index > 0]_vars
    /\ [][UartSendReturns =>
            \/ /\ command_queue' =
                     Append(command_queue, CommandRecord(rx_buffer))
               /\ notify' = notify
               /\ u_pc' = "notify"
               /\ u_todo' = <<>>
            \/ /\ UNCHANGED <<command_queue, notify>>
               /\ u_pc' = "full"
               /\ u_todo' = <<MSG_QUEUE_FULL>>]_vars
    /\ [][Len(command_queue') > Len(command_queue) => UartSendReturns]_vars
    /\ [][u_pc = "notify" /\ u_pc' # u_pc =>
            /\ notify' = notify + 1
            /\ u_pc' = "loop"
            /\ UNCHANGED <<command_queue, u_todo, print_queue>>]_vars
    /\ [][notify' > notify => u_pc = "notify" /\ u_pc' = "loop"]_vars
    /\ [][UartTakes(Terminators) /\ rx_index = 0 =>
            UNCHANGED <<command_queue, notify, u_pc, u_todo, print_queue,
                        rx_index, rx_buffer>>]_vars
    /\ [][(UartTakes({LF}) /\ line_in # <<>> /\ line_in[Len(line_in)] = CR)
          => UNCHANGED <<command_queue, notify, u_pc, u_todo,
                         print_queue>>]_vars

C14_Witness ==
    /\ line_in = <<Ch1, CR, LF>>
    /\ u_log.ev = "empty_line"
    /\ typed = 3
    /\ Len(command_queue) = 1
    /\ CStr(command_queue[1]) = <<Ch1>>
    /\ notify = 1

\* A step in which HAL_UART_Transmit is called.
Transmits ==
    /\ p_log'.ev = "transmit"
    /\ p_log' # p_log \/ p_iter' # p_iter

\* C15: HAL_UART_Transmit is called only in steps of the print task, on the
\* message at the head of the print queue; the interrupt handler, the
\* reception task and the dispatcher change the output only by appending a
\* message to the print queue.
C15_SingleTransmitOwner ==
    /\ [][Transmits =>
            /\ print_queue # <<>>
            /\ p_log'.msg = Head(print_queue)
            /\ print_queue' = Tail(print_queue)
            /\ UNCHANGED <<envVars, uart_stream_buffer, uartVars,
                           command_queue, notify, handlerVars, echoVars,
                           cq_src, wd_uart>>]_vars
    /\ [][~UNCHANGED <<envVars, uart_stream_buffer, uartVars, command_queue,
                       notify, handlerVars>> =>
            /\ UNCHANGED printVars
            /\ \/ print_queue' = print_queue
               \/ /\ u_todo # <<>>
                  /\ print_queue' = Append(print_queue, Head(u_todo))
               \/ /\ h_todo # <<>>
                  /\ print_queue' = Append(print_queue, Head(h_todo))]_vars

C15_Witness ==
    /\ p_log.ev = "transmit"
    /\ p_log.msg = CharMsg(Ch2)
    /\ h_todo = <<LED_MENU>>

\* s is strictly increasing.
Increasing(s) == \A i \in 1..Len(s) - 1 : s[i] < s[i + 1]

\* C16: bytes leave the stream buffer in the order the interrupt handler
\* deposited them; their echo messages and their lines keep that order; and
\* the dispatcher processes the records of the command queue first enqueued,
\* first processed.
C16_PipelineOrder ==
    /\ [][Len(uart_stream_buffer') > Len(uart_stream_buffer) =>
            SubSeq(uart_stream_buffer', 1, Len(uart_stream_buffer))
              = uart_stream_buffer]_vars
    /\ [][UartTakesByte =>
            /\ uart_stream_buffer' = Tail(uart_stream_buffer)
            /\ line_in'[Len(line_in')] = Head(uart_stream_buffer)
            /\ SubSeq(line_in', 1, Len(line_in') - 1) \in {<<>>, line_in}]_vars
    /\ [][line_out' \notin {line_out, <<>>} =>
            /\ u_todo # <<>>
            /\ line_out' = Append(line_out, Head(u_todo))
            /\ print_queue' = Append(print_queue, Head(u_todo))]_vars
    /\ [](EchoSettled /\ ~line_dropped => line_out = EchoFrom(line_in, 1, 0)
                                          /\ Len(line_out) <= Len(line_in))
    /\ [](/\ Increasing(cq_src)
          /\ cq_src # <<>> => h_log.src < cq_src[1]
          /\ Len(cq_src) = Len(command_queue))
    /\ [][Len(command_queue') > Len(command_queue) =>
            /\ SubSeq(command_queue', 1, Len(command_queue)) = command_queue
            /\ Line(rx_buffer, rx_index) = Edited(TypedLine, 1, <<>>)
            /\ CStr(command_queue'[Len(command_queue')])
                 = Line(rx_buffer, rx_index)]_vars
    /\ [][Len(command_queue') < Len(command_queue) =>
            /\ command_queue' = Tail(command_queue)
            /\ h_log'.raw = CStr(Head(command_queue))
            /\ h_log'.src = Head(cq_src)
            /\ h_log'.src > h_log.src]_vars

C16_Witness ==
    /\ line_in = <<Ch2, LF>>
    /\ line_out = <<CharMsg(Ch2)>>
    /\ h_log.src = 1
    /\ h_log.raw = <<Ch1>>
    /\ cq_src = <<2>>
    /\ CStr(command_queue[1]) = <<Ch2>>

\* C17: a message leaves the print queue only from the head and only by
\* being transmitted, in the same step; a step that transmits removes the
\* message it transmits; so messages are transmitted in the order they were
\* accepted, one at a time, each exactly once.
C17_OutputWriterOrder ==
    /\ [][print_queue' # print_queue =>
            \/ /\ Len(print_queue') = Len(print_queue) + 1
               /\ SubSeq(print_queue', 1, Len(print_queue)) = print_queue
               /\ UNCHANGED printVars
            \/ /\ print_queue # <<>>
               /\ print_queue' = Tail(print_queue)
               /\ p_log' = PLog("transmit", Head(print_queue))
               /\ wd_print' # wd_print]_vars
    /\ [][Transmits =>
            /\ print_queue # <<>>
            /\ Len(print_queue') = Len(print_queue) - 1]_vars
    /\ [](p_log.ev = "none" => \/ print_queue = <<>>
                               \/ u_pc # "boot" /\ print_queue[1] = WELCOME)

C17_Witness ==
    /\ p_log = PLog("transmit", WELCOME)
    /\ Len(print_queue) >= 3
    /\ print_queue[1] = MAIN_MENU
    /\ print_queue[2] = CharMsg(Ch1)

\* C18: the dispatcher leaves its wait only on a notification, which it
\* clears; once woken it stays in its drain loop after every command it
\* dequeues, and it goes back to the wait only from a command queue it found
\* empty, with all output of the last command requested.
C18_DispatcherDrain ==
    /\ [][h_pc = "take" /\ h_pc' = "drain" => notify > 0 /\ notify' = 0]_vars
    /\ [][Len(command_queue') < Len(command_queue) =>
            h_pc = "drain" /\ h_pc' = "drain"]_vars
    /\ [][h_pc = "drain" /\ h_pc' = "take" =>
            /\ command_queue = <<>>
            /\ command_queue' = <<>>
            /\ h_todo = <<>>]_vars

C18_Witness ==
    /\ h_pc = "drain"
    /\ notify = 0
    /\ h_log.src = 1
    /\ h_todo = <<>>
    /\ cq_src = <<2>>

\* C19 as stated: the waits of all three tasks are bounded, so that once
\* the input has stopped each of the three tasks still resumes again and
\* again.
C19_AllThreeResume ==
    /\ []<><<UartTimeout>>_vars
    /\ []<><<PrintTimeout>>_vars
    /\ []<><<HandlerTake>>_vars

\* C19 amended: the waits of the reception task and of the print task are
\* bounded, and once the input has stopped both tasks resume again and
\* again; the wait of the dispatcher is unbounded: it ends only with a
\* notification, and once the input has stopped the dispatcher stays in it.
C19_BoundedSuspension ==
    /\ []<><<UartTimeout>>_vars
    /\ []<><<PrintTimeout>>_vars
    /\ [][h_pc = "take" /\ h_pc' # "take" => notify > 0]_vars
    /\ <>[](h_pc = "take")

C19_Witness ==
    /\ u_log.ev = "timeout"
    /\ p_log.ev = "timeout"
    /\ h_pc = "take"
    /\ notify = 0
    /\ h_log.src = 1
    /\ command_queue = <<>>

\* An iteration of the print loop that ran into the timeout of its wait.
PrintTimesOut ==
    /\ p_log'.ev = "timeout"
    /\ p_iter' # p_iter

\* C20: an iteration of the reception loop takes a byte or runs into the
\* timeout, an iteration of the print loop transmits a message or runs into
\* the timeout; every iteration of either loop feeds the watchdog record of
\* its task when the registration of the task succeeded, and nothing else
\* feeds a record; once the input has stopped the record of a registered
\* task is still fed again and again; an iteration of the print loop that
\* timed out does nothing but feed the record.
C20_WatchdogFeeding ==
    /\ [][UartTakesByte => u_iter' # u_iter]_vars
    /\ [][u_iter' # u_iter =>
            \/ UartTakesByte
            \/ /\ uart_stream_buffer = <<>>
               /\ u_log'.ev = "timeout"
               /\ UNCHANGED <<rx_buffer, rx_index, u_pc, u_todo,
                              command_queue, notify, print_queue>>]_vars
    /\ [][(u_iter' # u_iter /\ wd_ids.uart # WATCHDOG_INVALID_ID) =>
            wd_uart' # wd_uart]_vars
    /\ [][wd_uart' # wd_uart =>
            u_iter' # u_iter /\ wd_ids.uart # WATCHDOG_INVALID_ID]_vars
    /\ [][print_queue # <<>> /\ print_queue' = Tail(print_queue) =>
            p_iter' # p_iter]_vars
    /\ [][p_iter' # p_iter => Transmits \/ PrintTimesOut]_vars
    /\ [][(p_iter' # p_iter /\ wd_ids.print # WATCHDOG_INVALID_ID) =>
            wd_print' # wd_print]_vars
    /\ [][wd_print' # wd_print =>
            p_iter' # p_iter /\ wd_ids.print # WATCHDOG_INVALID_ID]_vars
    /\ [][PrintTimesOut =>
            /\ print_queue = <<>>
            /\ UNCHANGED <<envVars, uart_stream_buffer, uartVars,
                           command_queue, notify, handlerVars, print_queue,
                           echoVars, cq_src, wd_uart>>]_vars
    /\ wd_ids.uart # WATCHDOG_INVALID_ID => []<><<wd_uart' # wd_uart>>_vars
    /\ wd_ids.print # WATCHDOG_INVALID_ID => []<><<wd_print' # wd_print>>_vars

C20_Witness ==
    /\ typed = 0
    /\ wd_ids.uart # WATCHDOG_INVALID_ID
    /\ wd_ids.print = WATCHDOG_INVALID_ID
    /\ u_log.ev = "timeout"
    /\ p_log.ev = "timeout"
    /\ wd_uart = 1
    /\ wd_print = 0
    /\ p_iter = 1
    /\ print_queue = <<>>

\* C21: the first two messages the Output Channel accepts are the welcome
\* banner and then the Main menu, both accepted before the reception loop
\* takes its first byte, and no byte deposited before startup completes is
\* left for the loop: the relay is empty when the loop is entered (a byte
\* that is in the relay then is the first one the loop echoes and stores).
C21_StartupOrdering ==
    /\ [](/\ Len(out_first) >= 1 => out_first[1] = WELCOME
          /\ Len(out_first) >= 2 => out_first[2] = MAIN_MENU
          /\ line_in # <<>> => Len(out_first) = 2)
    /\ [][(u_pc \in {"banner", "unwatched"} /\ u_pc' = "loop") =>
            uart_stream_buffer' = <<>>]_vars

\* The number of bytes the reception loop has taken out of the relay.
Taken == typed - rx_lost - Len(uart_stream_buffer)

\* C22: the callback is ready for the next byte in every state, whether or
\* not the relay has room; a byte it handles is appended to the relay if
\* the relay has room and is lost only if the relay is full, and the deposit
\* touches nothing else; the reception loop takes the oldest byte of the
\* relay, once.  As long as no byte was lost, the relay holds exactly the
\* bytes deposited and not yet taken, in the order of their arrival, and the
\* byte taken last is the one that arrived before them.
C22_RelayHandOff ==
    /\ [](/\ Len(uart_stream_buffer) <= UART_STREAM_BUFFER_SIZE
          /\ (scenario = "flood" /\ typed < MaxFlood) =>
                ENABLED RxCpltCallback(FloodByte(typed))
          /\ (scenario = "flood" /\ rx_lost = 0) =>
                /\ \A i \in 1..Len(uart_stream_buffer) :
                      uart_stream_buffer[i] = FloodByte(Taken + i - 1)
                /\ Taken > 0 =>
                      /\ line_in # <<>>
                      /\ line_in[Len(line_in)] = FloodByte(Taken - 1))
    /\ [][typed' # typed =>
            /\ typed' = typed + 1
            /\ IF Len(uart_stream_buffer) < UART_STREAM_BUFFER_SIZE
               THEN /\ Len(uart_stream_buffer') = Len(uart_stream_buffer) + 1
                    /\ SubSeq(uart_stream_buffer', 1, Len(uart_stream_buffer))
                          = uart_stream_buffer
                    /\ rx_lost' = rx_lost
               ELSE /\ uart_stream_buffer' = uart_stream_buffer
                    /\ rx_lost' = rx_lost + 1
            /\ UNCHANGED <<uartVars, handlerVars, command_queue, notify,
                           print_queue, echoVars>>]_vars
    /\ [][typed' = typed =>
            /\ rx_lost' = rx_lost
            /\ \/ uart_stream_buffer' = uart_stream_buffer
               \/ /\ uart_stream_buffer # <<>>
                  /\ uart_stream_buffer' = Tail(uart_stream_buffer)
                  /\ line_in'[Len(line_in')] = Head(uart_stream_buffer)]_vars

\* A byte was lost on the full relay, the loop then took a byte, and the byte
\* that arrived next was deposited.
C22_Witness ==
    /\ scenario = "flood"
    /\ rx_lost = 1
    /\ Len(uart_stream_buffer) = UART_STREAM_BUFFER_SIZE
    /\ Taken = 1
    /\ typed = UART_STREAM_BUFFER_SIZE + 2

\* The first n characters of text.
Prefix(text, n) == SubSeq(text, 1, IF Len(text) < n THEN Len(text) ELSE n)

\* C23: the print queue never holds more than PRINT_QUEUE_DEPTH messages and
\* a call of print_message is never blocked for good.  A call with the null
\* pointer returns pdFAIL and leaves the queue alone; a call that finds the
\* queue full returns pdFAIL and leaves the queue alone; any other call
\* returns pdPASS and appends one slot of PRINT_MESSAGE_MAX_SIZE bytes that
\* ends with a NUL and holds, as its string, the first min(len, 511)
\* characters of the argument.
C23_PrintMessageContract ==
    /\ [](/\ Len(print_queue) <= PRINT_QUEUE_DEPTH
          /\ (scenario = "print" /\ pm_log.n < MaxPrintCalls) =>
                ENABLED PrintMessageCall)
    /\ [][pm_log' # pm_log =>
            LET arg == pm_log'.arg
                q == print_queue
            IN IF arg.null \/ Len(q) = PRINT_QUEUE_DEPTH
               THEN /\ pm_log'.ret = pdFAIL
                    /\ print_queue' = q
               ELSE /\ pm_log'.ret = pdPASS
                    /\ Len(print_queue') = Len(q) + 1
                    /\ SubSeq(print_queue', 1, Len(q)) = q
                    /\ LET slot == print_queue'[Len(q) + 1].c
                       IN /\ Len(slot) = PRINT_MESSAGE_MAX_SIZE
                          /\ slot[PRINT_MESSAGE_MAX_SIZE] = NUL
                          /\ CStr(slot) =
                                Prefix(arg.text, PRINT_MESSAGE_MAX_SIZE - 1)]_vars

\* The queue is full of accepted texts, the first of them a text of 513
\* characters cut down to 511, and the last call, with a text of 512
\* characters, has returned pdFAIL.
C23_Witness ==
    /\ Len(print_queue) = PRINT_QUEUE_DEPTH
    /\ Len(CStr(print_queue[1].c)) = PRINT_MESSAGE_MAX_SIZE - 1
    /\ pm_log.n = 12
    /\ ~pm_log.arg.null
    /\ Len(pm_log.arg.text) = PRINT_MESSAGE_MAX_SIZE
    /\ pm_log.ret = pdFAIL

\* C24: the menu state is Main until a command has been processed and is
\* always Main or LedPatterns; it changes only in a step in which the
\* dispatcher takes a record out of the command queue and processes it; the
\* accessor returns the current value and changes nothing else.
C24_MenuStateOwnership ==
    /\ [](/\ current_menu_state \in MenuState_t
          /\ h_log.rep = 0 => current_menu_state = MENU_MAIN
          /\ menu_read \in MenuState_t \cup {"none"})
    /\ [][current_menu_state' # current_menu_state =>
            /\ h_pc = "drain"
            /\ command_queue # <<>>
            /\ command_queue' = Tail(command_queue)
            /\ h_log'.from = current_menu_state
            /\ h_log'.writes = 1
            /\ UNCHANGED <<uart_stream_buffer, uartVars, print_queue,
                           printVars, menu_read>>]_vars
    /\ [][menu_read' # menu_read =>
            /\ menu_read' = current_menu_state
            /\ UNCHANGED <<envVars, uart_stream_buffer, uartVars,
                           command_queue, notify, handlerVars, print_queue,
                           echoVars, cq_src, wd_uart, printVars, rx_lost,
                           shownVars, pm_log>>]_vars

\* The dispatcher has moved the menu to LedPatterns and the accessor, called
\* before and after, has returned Main and then LedPatterns.
C24_Witness ==
    /\ current_menu_state = MENU_LED_PATTERNS
    /\ h_log.from = MENU_MAIN
    /\ h_log.writes = 1
    /\ menu_read = MENU_LED_PATTERNS

\* ---------------------------------------------------------------- C25
\* The work the reception task has before it in the iteration (or the
\* start-up) it is in, print requests included.
UartWork ==
    3 * Len(u_todo)
    + (IF u_call # <<>> THEN 1 ELSE 0)
    + CASE u_pc \in {"boot", "send"} -> 40
        [] u_pc = "delay" -> 39
        [] u_pc \in {"banner", "notify", "echo"} -> 10
        [] u_pc \in {"unwatched", "overflow", "full", "erase"} -> 5
        [] u_pc = "loop" -> 0

\* The work the three tasks still have before them: bytes in the relay,
\* the rest of the iteration of the reception task, records in the command
\* queue, print requests of the dispatcher not yet issued, messages not yet
\* transmitted, and a wake-up not yet taken.
Work ==
    60 * Len(uart_stream_buffer)
    + UartWork
    + 20 * Len(command_queue)
    + 2 * Len(h_todo)
    + Len(print_queue)
    + 2 * notify
    + (IF h_pc = "drain" THEN 1 ELSE 0)

\* No task has anything left to do but wait: the guard of every task
\* step of Next is false (the reception task is at its wait on the relay
\* and finds it empty; the dispatcher has issued its print requests and is
\* at the wake-signal wait with no notification pending; the print queue
\* is empty).
TasksIdle ==
    /\ u_pc = "loop"
    /\ uart_stream_buffer = <<>>
    /\ h_pc = "take"
    /\ notify = 0
    /\ h_todo = <<>>
    /\ print_queue = <<>>

\* The typed bytes end a line: the key was held to the overflow and whole
\* lines of the scenario "recover" came after it.
RecoverLineEnd ==
    /\ scenario = "recover"
    /\ typed > UART_RX_BUFFER_SIZE
    /\ (typed - UART_RX_BUFFER_SIZE) % 2 = 0

\* The number of the line the typed bytes end.
RecoverLine == (typed - UART_RX_BUFFER_SIZE) \div 2

\* C25: self-healing.  (1) The reception task, once the message that
\* reports a full command queue or a line-buffer overflow is requested,
\* empties the line buffer and is back at its wait on the byte relay; an
\* invalid command changes no menu state, has the error message and the
\* menu requested and leaves the dispatcher in its drain loop.  (2)
\* Whatever errors came before, a terminator on a non-empty line brings
\* the task to the xQueueSend of the line, which queues it when the
\* command queue has room, and a valid option that is dequeued has its
\* effect on the menu state.  (3) Every step of a task lowers Work, and
\* when the processor does not idle while a task is ready the tasks
\* always come to rest again, whatever was typed.  (4) At rest the command
\* queue is empty and the last line enqueued is the last one processed:
\* after the overflow, after the invalid command and after the burst that
\* filled the command queue, the valid command typed next is the one
\* processed last, and it has taken the menu where it leads.  Only the
\* last line of the burst may be missing (dropped with the queue full).
C25_SelfHealing ==
    /\ [][(u_pc \in {"full", "overflow"} /\ u_pc' # u_pc)
             => /\ u_pc' = "loop"
                /\ u_todo' = <<>>
                /\ rx_index' = 0
                /\ rx_buffer' = Zeros(UART_RX_BUFFER_SIZE)]_vars
    /\ [][(u_log' # u_log /\ u_log'.ev = "queue_full") => u_pc' = "full"]_vars
    /\ [][(u_log' # u_log /\ u_log'.ev = "overflow") => u_pc = "overflow"]_vars
    /\ [][h_log' # h_log
             => /\ h_pc' = "drain"
                /\ (h_log'.cmd \notin Options(current_menu_state)
                      => /\ current_menu_state' = current_menu_state
                         /\ h_todo' = <<MSG_INVALID,
                                        MenuOf(current_menu_state)>>)]_vars
    /\ [][(/\ u_pc = "loop" /\ uart_stream_buffer # <<>>
           /\ Head(uart_stream_buffer) \in Terminators
           /\ rx_index > 0
           /\ uart_stream_buffer' # uart_stream_buffer
           /\ typed' = typed)
             => u_pc' = "send"]_vars
    /\ [][(UartSendReturns /\ Len(command_queue) < COMMAND_QUEUE_DEPTH)
             => /\ Len(command_queue') = Len(command_queue) + 1
                /\ u_log'.ev = "enqueued"
                /\ u_pc' = "notify"]_vars
    /\ [][h_log' # h_log /\ h_log'.cmd = <<Ch1>>
             => current_menu_state' = MENU_LED_PATTERNS]_vars
    /\ [][h_log' # h_log /\ h_log'.cmd = <<Ch0>>
              /\ current_menu_state = MENU_LED_PATTERNS
             => current_menu_state' = MENU_MAIN]_vars
    /\ [][typed' = typed => Work' < Work]_vars
    /\ []<>TasksIdle
    /\ [](TasksIdle
             => /\ command_queue = <<>>
                /\ u_log.ev = "enqueued" => h_log.src = nlines)
    /\ []((TasksIdle /\ RecoverLineEnd)
             => \/ /\ h_log.src = RecoverLine
                   /\ h_log.cmd = <<RecoverCmd(RecoverLine - 1)>>
                \/ /\ RecoverLine = RecoverBurst + COMMAND_QUEUE_DEPTH + 1
                   /\ u_log.ev = "queue_full"
                   /\ h_log.src = RecoverLine - 1)
    /\ []((TasksIdle /\ RecoverLineEnd /\ RecoverLine = 1)
             => current_menu_state = MENU_LED_PATTERNS)
    /\ []((TasksIdle /\ RecoverLineEnd /\ RecoverLine = 2)
             => /\ current_menu_state = MENU_LED_PATTERNS
                /\ h_log.msgs = <<MSG_INVALID, LED_MENU>>)
    /\ []((TasksIdle /\ RecoverLineEnd /\ RecoverLine = RecoverBurst)
             => current_menu_state = MENU_MAIN)
    /\ []((/\ TasksIdle /\ RecoverLineEnd
           /\ RecoverLine > RecoverBurst + COMMAND_QUEUE_DEPTH + 1)
             => current_menu_state = MENU_LED_PATTERNS)

\* The key was held until the line buffer overflowed; the line "1", the
\* invalid line "9" and the line "0" were processed; the last line of the
\* burst was dropped with the command queue full, so that the line "1"
\* typed after the burst was processed in the LED patterns menu, as the
\* line after the last one enqueued; the tasks have come to rest.
C25_Witness ==
    /\ scenario = "recover"
    /\ typed = UART_RX_BUFFER_SIZE
                 + 2 * (RecoverBurst + COMMAND_QUEUE_DEPTH + 2)
    /\ TasksIdle
    /\ h_log.src = RecoverBurst + COMMAND_QUEUE_DEPTH + 2
    /\ h_log.cmd = <<Ch1>>
    /\ h_log.from = MENU_LED_PATTERNS
    /\ current_menu_state = MENU_LED_PATTERNS

\* ---------------------------------------------------------------- C27
\* The work the dispatcher has before it, lowered by each of its steps.
HandlerWork ==
    3 * Len(command_queue) + Len(h_todo) + 2 * notify
    + (IF h_pc = "drain" THEN 1 ELSE 0)

\* A step of the dispatcher.
HandlerStep ==
    \/ h_pc' # h_pc
    \/ h_todo' # h_todo
    \/ h_log' # h_log
    \/ notify' < notify

\* C27: no lost wake-up.  While a record is in the command queue the
\* dispatcher is in its drain loop, or a notification is pending, or the
\* reception task is at the xTaskNotifyGive that follows the enqueue: the
\* dispatcher never waits on its wake signal with a record queued and no
\* wake-up due.  A record leaves the queue only in the step that processes
\* it, from the head, and the line numbers processed increase strictly, so
\* each enqueued record is processed once and none twice.  Every
\* dispatcher step lowers HandlerWork and every task step lowers Work, so
\* under fair scheduling the queue is drained.
C27_NoLostWakeup ==
    /\ [](command_queue # <<>>
             => h_pc = "drain" \/ notify > 0 \/ u_pc = "notify")
    /\ []((h_pc = "take" /\ notify = 0 /\ u_pc = "loop")
             => command_queue = <<>>)
    /\ [][command_queue' # command_queue =>
            \/ /\ Len(command_queue') < Len(command_queue)
               /\ command_queue' = Tail(command_queue)
               /\ cq_src' = Tail(cq_src)
               /\ h_log' # h_log
               /\ h_log'.src = Head(cq_src)
               /\ h_log'.src > h_log.src
               /\ h_pc = "drain" /\ h_pc' = "drain"
            \/ /\ SubSeq(command_queue', 1, Len(command_queue))
                    = command_queue
               /\ Len(command_queue') = Len(command_queue) + 1
               /\ u_pc' = "notify"
               /\ UNCHANGED <<h_log, notify>>]_vars
    /\ [][h_log' # h_log => command_queue' = Tail(command_queue)]_vars
    /\ [][notify' < notify => notify' = 0 /\ h_pc = "take" /\ h_pc' = "drain"
                               /\ UNCHANGED command_queue]_vars
    /\ [][h_pc = "drain" /\ h_pc' = "take" => command_queue = <<>>]_vars
    /\ [][HandlerStep => HandlerWork' < HandlerWork]_vars
    /\ [][typed' = typed => Work' < Work]_vars

\* The dispatcher, still draining after an earlier line, has dequeued and
\* processed line 2 before the reception task gave the notification for it.
C27_Witness ==
    /\ u_pc = "notify"
    /\ u_log.ev = "enqueued"
    /\ command_queue = <<>>
    /\ h_pc = "drain"
    /\ h_log.src = 2
    /\ notify = 0

\* ---------------------------------------------------------------- C26
\* C26: priority policy.  The print task has a strictly higher priority
\* than the reception task and the dispatcher, which have equal
\* priorities; under priority-preemptive scheduling, while a message is
\* pending in the print queue no step changes the state of the reception
\* task or of the dispatcher (the only steps are the print task's
\* transmission and the receive interrupt), so the print queue never holds
\* more than one message.
C26_PriorityPolicy ==
    /\ [](/\ Priority("print") > Priority("uart")
          /\ Priority("print") > Priority("handler")
          /\ Priority("handler") = Priority("uart"))
    /\ [][print_queue # <<>> =>
            /\ UNCHANGED <<uartVars, handlerVars, notify, command_queue>>
            /\ \/ /\ print_queue' = Tail(print_queue)
                  /\ p_log' = PLog("transmit", Head(print_queue))
                  /\ UNCHANGED <<uart_stream_buffer, typed>>
               \/ /\ typed' = typed + 1
                  /\ UNCHANGED <<print_queue, printVars>>]_vars
    /\ [](Len(print_queue) <= 1)
    /\ [](print_queue # <<>> => Runs("print") /\ ~Runs("uart")
                                /\ ~Runs("handler"))

\* A message is pending in the print queue while the reception task has a
\* byte to take and the dispatcher has a notification to take: both are
\* ready and neither runs.
C26_Witness ==
    /\ print_queue # <<>>
    /\ Ready("uart") /\ uart_stream_buffer # <<>>
    /\ Ready("handler") /\ notify > 0
    /\ ~Runs("uart")
    /\ ~Runs("handler")

\* ---------------------------------------------------------------- C28
\* C28: every record in the command queue holds a string terminator within
\* its COMMAND_MAX_LENGTH bytes, and the dispatcher's string functions have
\* never read past the end of the record they were given.
C28_RecordTerminated ==
    /\ \A i \in 1..Len(command_queue) :
          /\ Len(command_queue[i]) = COMMAND_MAX_LENGTH
          /\ HasNul(command_queue[i])
    /\ ~h_log.oob

\* ---------------------------------------------------------------- C29
\* C29: every xQueueSend copies from a buffer at least as large as the
\* slot of its queue: each print request of the reception task and of the
\* dispatcher hands over a buffer of at least PRINT_MESSAGE_MAX_SIZE bytes,
\* and each line is sent to the command queue from a buffer of at least
\* COMMAND_MAX_LENGTH bytes.
C29_SourceCoversSlot ==
    /\ [][u_todo # <<>> /\ u_todo' = Tail(u_todo) =>
            SourceSize(Head(u_todo)) >= PRINT_MESSAGE_MAX_SIZE]_vars
    /\ [][h_todo # <<>> /\ h_todo' = Tail(h_todo) =>
            SourceSize(Head(h_todo)) >= PRINT_MESSAGE_MAX_SIZE]_vars
    /\ [][Len(command_queue') > Len(command_queue) =>
            Len(rx_buffer) >= COMMAND_MAX_LENGTH]_vars

\* ---------------------------------------------------------------- C30
\* C30: whenever the dispatcher waits for its wake signal with all its
\* print requests issued, the menu text last accepted by the print queue
\* is the menu of the current menu state.
C30_ShownMenuMatchesState ==
    (/\ h_pc = "take"
     /\ h_todo = <<>>
     /\ last_menu # Text("")) =>
        last_menu = MenuOf(current_menu_state)

\* ---------------------------------------------------------------- C31
\* C31: the cursor stays within 0 .. UART_RX_BUFFER_SIZE - 1 and the line
\* buffer keeps its UART_RX_BUFFER_SIZE bytes, so the terminator written at
\* rx_buffer[rx_index] and every appended byte lie inside the buffer; the
\* byte appended is the byte taken from the relay; the xQueueSend of a line
\* ends with the line enqueued or dropped, and when the reception task is
\* back at its wait after a line was enqueued or dropped or an overflowing
\* one discarded, the cursor is 0 and the buffer empty; and the buffer and
\* the cursor change only in a step of the reception task, never in the
\* step that puts a message on the print queue or takes one off it (the
\* append and the resets come when the print request has returned).
C31_CursorInvariant ==
    /\ [](/\ rx_index \in 0..(UART_RX_BUFFER_SIZE - 1)
          /\ Len(rx_buffer) = UART_RX_BUFFER_SIZE
          /\ \A i \in (rx_index + 1)..UART_RX_BUFFER_SIZE : rx_buffer[i] = NUL)
    /\ [][UartTakesByte => received_char' = Head(uart_stream_buffer)]_vars
    /\ [][(u_log' # u_log /\ u_log'.ev = "append") =>
            /\ u_pc = "echo"
            /\ rx_index + 1 \in 1..(UART_RX_BUFFER_SIZE - 1)
            /\ rx_index' = rx_index + 1
            /\ rx_buffer' = [rx_buffer EXCEPT ![rx_index + 1] = received_char]
            /\ received_char' = received_char]_vars
    /\ [][(/\ UartTakesByte
           /\ Head(uart_stream_buffer) \in Terminators
           /\ rx_index > 0) =>
            /\ u_pc' = "send"
            /\ rx_index' = rx_index
            /\ rx_buffer'[rx_index + 1] = NUL]_vars
    /\ [][UartSendReturns =>
            /\ u_log'.ev \in {"enqueued", "queue_full"}
            /\ u_pc' \in {"notify", "full"}]_vars
    /\ [][(print_queue' # print_queue \/ u_call' \notin {u_call, <<>>}) =>
            UNCHANGED <<rx_index, rx_buffer, u_pc>>]_vars
    /\ [][(u_pc \in {"echo", "overflow", "full"} /\ u_pc' # u_pc) =>
            u_call # <<>> /\ u_call' = <<>>]_vars
    /\ [][(u_pc \in {"notify", "full", "overflow"} /\ u_pc' # u_pc) =>
            /\ u_pc' = "loop"
            /\ rx_index' = 0
            /\ rx_buffer' = Zeros(UART_RX_BUFFER_SIZE)]_vars
    /\ []((u_pc = "loop" /\ u_log.ev \in {"enqueued", "queue_full",
                                           "overflow"}) =>
            /\ rx_index = 0
            /\ rx_buffer = Zeros(UART_RX_BUFFER_SIZE))
    /\ [][(rx_index' # rx_index \/ rx_buffer' # rx_buffer) =>
            /\ UartTakesByte \/ u_pc' # u_pc
            /\ typed' = typed
            /\ UNCHANGED <<handlerVars, command_queue, printVars,
                           isrVars>>]_vars

\* The cursor stands at its largest value, UART_RX_BUFFER_SIZE - 1: the
\* buffer holds 127 bytes and the terminator has room in the last one.
C31_Witness ==
    /\ scenario = "heal"
    /\ rx_index = UART_RX_BUFFER_SIZE - 1
    /\ rx_buffer[UART_RX_BUFFER_SIZE - 1] = ChX
    /\ rx_buffer[UART_RX_BUFFER_SIZE] = NUL
    /\ u_log.ev = "append"

\* ---------------------------------------------------------------- C32
\* C32: the byte that overflows the line buffer is echoed and not kept, the
\* buffer is empty after it, and when a line of 128 + k bytes is ended by
\* a terminator the record placed on the command queue is a command made
\* of the last k bytes of the line.
C32_ResidueAfterOverflow ==
    /\ u_log.ev = "overflow" =>
          /\ u_log.msgs[1] = CharMsg(ChX)
          /\ rx_index = 0
          /\ rx_buffer = Zeros(UART_RX_BUFFER_SIZE)
    /\ (scenario = "residue" /\ u_log.ev = "enqueued"
        /\ command_queue # <<>>) =>
          LET k == typed - 1 - UART_RX_BUFFER_SIZE
              rec == command_queue[Len(command_queue)]
          IN /\ u_log.len = k
             /\ u_log.line = [i \in 1..k |-> ChX]
             /\ HasNul(rec)
             /\ CStr(rec) = [i \in 1..k |-> ChX]

\* ---------------------------------------------------------------- C33
\* A step in which the dispatcher processes a record.
Dispatches ==
    /\ command_queue # <<>>
    /\ command_queue' = Tail(command_queue)

\* C33: a command processed while current_menu_state holds a value that is
\* neither MENU_MAIN nor MENU_LED_PATTERNS sets the state to MENU_MAIN with
\* one write and requests the main menu and nothing else, whatever the
\* command is; no step of the program writes such a value, so the branch
\* is taken only for a value that was there at start-up, once, and never
\* when the state started as the program initialises it.
C33_DefensiveReset ==
    /\ [][(Dispatches /\ current_menu_state \notin MenuStates) =>
            /\ current_menu_state' = MENU_MAIN
            /\ h_log'.writes = 1
            /\ h_log'.msgs = <<MAIN_MENU>>
            /\ h_log'.leds = <<>>
            /\ h_todo' = <<MAIN_MENU>>]_vars
    /\ [][(Dispatches /\ current_menu_state \in MenuStates) =>
            LET out == IF current_menu_state = MENU_MAIN
                       THEN process_main_menu_command(
                                h_log'.cmd \o <<NUL>>)
                       ELSE process_led_patterns_menu_command(
                                h_log'.cmd \o <<NUL>>)
            IN /\ h_log'.msgs = out.msgs
               /\ h_log'.leds = out.leds
               /\ current_menu_state' = out.state]_vars
    /\ [][current_menu_state' # current_menu_state =>
            current_menu_state' \in MenuStates /\ Dispatches]_vars
    /\ [](current_menu_state \notin MenuStates =>
            current_menu_state = boot_state /\ h_log.src = 0)
    /\ [](boot_state = MENU_MAIN =>
            /\ current_menu_state \in MenuStates
            /\ h_log.from \in MenuStates)

\* The state started with the value 2; the line "1" was processed: the
\* state is MENU_MAIN and the main menu was requested, where a matched "1"
\* would have entered the LED patterns menu.
C33_Witness ==
    /\ boot_state = "MENU_VALUE_2"
    /\ h_log.src = 1
    /\ h_log.from = "MENU_VALUE_2"
    /\ h_log.cmd = <<Ch1>>
    /\ h_log.msgs = <<MAIN_MENU>>
    /\ current_menu_state = MENU_MAIN

\* ---------------------------------------------------------------- C34
\* C34: in the receive callback for the console UART the byte is copied
\* into the stream buffer before reception is re-armed.  From the interrupt
\* to the copy reception is not armed and uart_rx_byte holds the byte just
\* received; uart_rx_byte is written only while no callback runs; the byte
\* deposited is the byte the interrupt delivered; reception is re-armed
\* only after the copy, as the last step, so it is armed whenever no
\* callback runs; and a callback for another UART changes neither the
\* stream buffer nor uart_rx_byte nor the arming.
C34_CopyBeforeRearm ==
    /\ []((isr_pc # 0 /\ ~isr_log.copied) =>
            /\ ~armed
            /\ isr_log.huart = "huart2"
            /\ uart_rx_byte = isr_log.rx)
    /\ [](isr_pc = 0 => armed)
    /\ [][uart_rx_byte' # uart_rx_byte => isr_pc = 0 /\ armed]_vars
    /\ [][Len(uart_stream_buffer') > Len(uart_stream_buffer) =>
            /\ uart_stream_buffer' = Append(uart_stream_buffer, isr_log.rx)
            /\ isr_log.huart = "huart2"
            /\ ~isr_log.copied /\ isr_log'.copied
            /\ ~armed /\ ~armed']_vars
    /\ [][(armed' /\ ~armed) =>
            /\ isr_log.copied
            /\ isr_log.huart = "huart2"
            /\ isr_pc' = 0]_vars
    /\ [][(isr_log'.huart = "other" /\ isr_log' # isr_log) =>
            UNCHANGED <<uart_stream_buffer, uart_rx_byte, armed, isr_pc,
                        typed>>]_vars

\* The second byte typed, a "2" after a "1", has been copied into the
\* stream buffer and reception is not yet armed again.
C34_Witness ==
    /\ typed = 2
    /\ isr_pc = 2
    /\ isr_log = IsrLog("huart2", Ch2, TRUE)
    /\ ~armed
    /\ uart_rx_byte = Ch2
    /\ uart_stream_buffer = <<Ch2>>
    /\ line_in = <<Ch1>>

====
